---- MODULE Spec2Model ----
(***************************************************************************)
(* Model of src/lib/midiInputManager.ts: the MidiInputManager class, its   *)
(* two per-hand aggregation buffers, the close timers, the sustain pedal   *)
(* bookkeeping, the adaptive split estimator and the subscription sets.    *)
(*                                                                         *)
(* Time is an integer number of milliseconds.  performance.now() is the    *)
(* variable now; a handler runs to completion at one instant.  A timer     *)
(* whose deadline has passed may fire at any later instant (the event loop *)
(* gives no upper bound on lateness).                                      *)
(* Velocity blend factors are kept in tenths (5 stands for 0.5).           *)
(***************************************************************************)
EXTENDS Integers, Sequences, FiniteSets, TLC

VARIABLES
  cfg,             \* this.cfg, fixed by the constructor
  now,             \* performance.now()
  splitPoint,      \* this.splitPoint
  chordCallbacks,  \* this.chordCallbacks, a Set in insertion order
  splitCallbacks,  \* this.splitCallbacks, a Set in insertion order
  bufferL,         \* this.bufferL
  bufferR,         \* this.bufferR
  activeNotes,     \* this.activeNotes, a Map keyed by midi
  pedalDown,       \* this.pedalDown
  recentNoteOns,   \* this.recentNoteOns
  adaptTimer,      \* this.adaptTimer and the interval behind it
  disposed,        \* this.disposed
  timers,          \* the platform's pending setTimeout callbacks
  emitted,         \* the emitChord calls of the last step: event and receivers
  splitEmitted,    \* the emitSplitChange calls of the last step
  threw,           \* whether the last step raised an error to its caller
  chordCount,      \* number of emitChord calls so far
  splitCount,      \* number of emitSplitChange calls so far
  noteCount,       \* number of handleNoteOn calls so far
  lastCall,        \* the event entry point or timer callback that ran last
  lastStamp,       \* timestamp of the last handleNoteOn call (input order)
  played,          \* per accepted note-on: its pitch and the hand it was given
  sinceTick,       \* accepted note-ons since the last estimator tick, once one ran
  unsub,           \* the unsubscribe closures handed out, and those already called
  twin             \* a second engine given the same note-ons, and both engines' events

engine == <<cfg, splitPoint, bufferL, bufferR, activeNotes, pedalDown,
            recentNoteOns, adaptTimer, disposed, timers>>
subs == <<chordCallbacks, splitCallbacks>>
out == <<emitted, splitEmitted, threw>>
counts == <<chordCount, splitCount>>
calls == <<noteCount, lastCall, lastStamp, played, sinceTick>>
ghosts == <<unsub, twin>>
vars == <<engine, subs, out, counts, calls, ghosts, now>>

\* a step that emits nothing and raises nothing
Quiet ==
  /\ emitted' = <<>>
  /\ splitEmitted' = <<>>
  /\ threw' = FALSE
  /\ UNCHANGED counts

-----------------------------------------------------------------------------
(* Bounds of the model *)

MaxNotes == 3         \* note-ons in the windowing runs
MaxTime == 5          \* last instant at which their clock still advances
MaxHeld == 2          \* note-ons in the sustain runs
MaxHeldTime == 2
MaxCalls == 2         \* note-ons in the life-cycle runs
MaxLifeTime == 2
WarmUp == 6           \* repeated first key of the split runs
MaxSplitNotes == 9    \* note-ons in the split runs
MaxSplitTime == 6
MaxDefaultNotes == 4  \* note-ons in the default-configuration runs
MaxDefaultTime == 11
MaxRoleNotes == 2     \* note-ons in the classification runs
MaxRoleTime == 3
MaxSubs == 2          \* subscriptions of one callback in the subscription runs
MaxSubNotes == 1      \* note-ons in the subscription runs
MaxSubTime == 3
MaxTwinNotes == 2     \* note-ons in the two-engine runs
MaxTwinTime == 4
MaxScaleNotes == 12   \* note-ons in the chromatic runs
MaxScaleTime == 3
MaxRollNotes == 3     \* note-ons in the roll-extension runs
MaxRollTime == 6
LongWarmUp == 127     \* repeated first key of the long-history runs
MaxTickNotes == 129   \* note-ons in the long-history runs
MaxTickTime == 5
MaxContextNotes == 2  \* note-ons in the sustained-context runs
MaxContextTime == 3
MaxNamingNotes == 3   \* note-ons in the naming runs
MaxNamingTime == 3
MaxRestrikeNotes == 3 \* note-ons in the restrike runs
MaxRestrikeTime == 3
MaxLiveNotes == 3     \* note-ons in the fair runs
MaxLiveTime == 4
ClampWarmUp == 7      \* repeated first key of the clamping runs
MaxClampNotes == 9    \* note-ons in the clamping runs
MaxClampTime == 6
MaxPunctualNotes == 3 \* note-ons in the punctual runs
MaxPunctualTime == 6
MaxBlendNotes == 3    \* note-ons in the blending runs
MaxBlendTime == 3

(* null / undefined, and a present value *)
None == <<>>
Some(x) == <<x>>

-----------------------------------------------------------------------------
(* Configuration *)

DEFAULTS ==
  [ chordWindowMsRight |-> 50, chordWindowMsLeft |-> 80,
    earlyCloseCountRight |-> 4, earlyCloseCountLeft |-> 3,
    rollExtensionMsRight |-> 180, rollExtensionMsLeft |-> 250,
    splitInitialMidi |-> 60, splitMin |-> 52, splitMax |-> 64,
    splitAdaptIntervalMs |-> 1000, splitShiftThreshold |-> 5,
    leftBassArpGapMs |-> 120,
    velocityBlendRight |-> 5, velocityBlendLeft |-> 2,
    maxClusterSize |-> 7, sustainIncludesBuffer |-> TRUE ]

\* constructor: this.cfg = { ...DEFAULTS, ...config }
MergeConfig(config) ==
  [k \in DOMAIN DEFAULTS |-> IF k \in DOMAIN config THEN config[k] ELSE DEFAULTS[k]]

\* Configurations handed to the constructor: short windows, so that every
\* threshold of the windowing logic lies within MaxTime.
FastConfig ==
  [ chordWindowMsRight |-> 2, chordWindowMsLeft |-> 3,
    earlyCloseCountRight |-> 3, earlyCloseCountLeft |-> 2,
    rollExtensionMsRight |-> 3, rollExtensionMsLeft |-> 4,
    splitAdaptIntervalMs |-> 4, leftBassArpGapMs |-> 3 ]

PlainConfig ==
  [ chordWindowMsRight |-> 3, chordWindowMsLeft |-> 2,
    earlyCloseCountRight |-> 2, earlyCloseCountLeft |-> 3,
    rollExtensionMsRight |-> 4, rollExtensionMsLeft |-> 3,
    splitAdaptIntervalMs |-> 5, leftBassArpGapMs |-> 2,
    velocityBlendRight |-> 10, velocityBlendLeft |-> 0,
    maxClusterSize |-> 3, sustainIncludesBuffer |-> FALSE ]

Configs == { MergeConfig(FastConfig), MergeConfig(PlainConfig) }

\* A cluster threshold of 2, and the blend factors of PlainConfig swapped.
ClusterConfig ==
  [ chordWindowMsRight |-> 2, chordWindowMsLeft |-> 2,
    earlyCloseCountRight |-> 3, earlyCloseCountLeft |-> 2,
    rollExtensionMsRight |-> 3, rollExtensionMsLeft |-> 3,
    splitAdaptIntervalMs |-> 5, leftBassArpGapMs |-> 1,
    velocityBlendRight |-> 0, velocityBlendLeft |-> 10,
    maxClusterSize |-> 2 ]

RoleConfigs == { MergeConfig(PlainConfig), MergeConfig(ClusterConfig) }

\* A right hand whose roll-extension budget leaves more than 10 ms of slack,
\* a left hand whose budget ends within MaxRollTime.
RollConfig ==
  [ chordWindowMsRight |-> 1, chordWindowMsLeft |-> 3,
    earlyCloseCountRight |-> 3, earlyCloseCountLeft |-> 2,
    rollExtensionMsRight |-> 13, rollExtensionMsLeft |-> 4,
    leftBassArpGapMs |-> 3 ]

\* A right hand that early-closes at one note, a left hand for which 60% of
\* the window is a whole number of milliseconds.
EdgeConfig ==
  [ chordWindowMsRight |-> 2, chordWindowMsLeft |-> 5,
    earlyCloseCountRight |-> 1, earlyCloseCountLeft |-> 2,
    rollExtensionMsRight |-> 3, rollExtensionMsLeft |-> 6,
    leftBassArpGapMs |-> 3 ]

RollConfigs == { MergeConfig(RollConfig), MergeConfig(EdgeConfig) }

\* Windows of 1 ms, so that a key sustained in one window is still sounding
\* when the next one closes; with and without the sustained context.
ContextConfig ==
  [ chordWindowMsRight |-> 1, chordWindowMsLeft |-> 1,
    earlyCloseCountRight |-> 2, earlyCloseCountLeft |-> 2,
    rollExtensionMsRight |-> 1, rollExtensionMsLeft |-> 1,
    leftBassArpGapMs |-> 1 ]

ContextConfigs ==
  { MergeConfig(ContextConfig),
    MergeConfig(ContextConfig @@ [sustainIncludesBuffer |-> FALSE]) }

\* No early close within an octave: windows of up to twelve pitch classes,
\* with the default cluster threshold and with a threshold of 4.
ScaleConfig ==
  [ chordWindowMsRight |-> 2, chordWindowMsLeft |-> 2,
    earlyCloseCountRight |-> 13, earlyCloseCountLeft |-> 13,
    rollExtensionMsRight |-> 3, rollExtensionMsLeft |-> 3,
    leftBassArpGapMs |-> 1 ]

ScaleConfigs ==
  { MergeConfig(ScaleConfig), MergeConfig(ScaleConfig @@ [maxClusterSize |-> 4]) }

\* Windows of up to three notes per hand, with the default cluster threshold
\* (three pitch classes make a Chord) and with a threshold of 2.
NamingConfig ==
  [ chordWindowMsRight |-> 2, chordWindowMsLeft |-> 2,
    earlyCloseCountRight |-> 3, earlyCloseCountLeft |-> 3,
    rollExtensionMsRight |-> 3, rollExtensionMsLeft |-> 3,
    leftBassArpGapMs |-> 1 ]

NamingConfigs ==
  { MergeConfig(NamingConfig), MergeConfig(NamingConfig @@ [maxClusterSize |-> 2]) }

\* Split ranges: the default one around the default start, a range of one
\* pitch, and a start that lies above the range.
ClampConfigs ==
  { MergeConfig(FastConfig),
    MergeConfig(FastConfig @@ [splitMin |-> 60, splitMax |-> 60]),
    MergeConfig(FastConfig @@ [splitInitialMidi |-> 70]) }

\* Blend factors 0, 0.2, 0.5, 0.8 and 1 for the right hand, windows
\* of up to three notes.  For these factors the deviation times 1 - blend is
\* a half only where the product is exact in floating point.
BlendConfig ==
  [ chordWindowMsRight |-> 2, chordWindowMsLeft |-> 2,
    earlyCloseCountRight |-> 3, earlyCloseCountLeft |-> 3,
    rollExtensionMsRight |-> 3, rollExtensionMsLeft |-> 3 ]

BlendFactors == {0, 2, 5, 8, 10}

BlendConfigs ==
  { MergeConfig(BlendConfig @@ [velocityBlendRight |-> b]) : b \in BlendFactors }

-----------------------------------------------------------------------------
(* Pure helpers *)

Hands == {"L", "R"}

\* JavaScript's remainder: the sign follows the dividend
JsMod(n, m) == IF n >= 0 THEN n % m ELSE -((-n) % m)

Max(a, b) == IF a >= b THEN a ELSE b
Min(a, b) == IF a <= b THEN a ELSE b
Abs(a) == IF a >= 0 THEN a ELSE -a

\* Array.prototype.sort((a, b) => a - b)
SortAsc(s) == SortSeq(s, LAMBDA a, b: a < b)

RECURSIVE SetToSeq(_)
SetToSeq(S) ==
  IF S = {} THEN <<>>
  ELSE LET x == CHOOSE y \in S: \A z \in S: y <= z
       IN <<x>> \o SetToSeq(S \ {x})

Range(s) == { s[i] : i \in DOMAIN s }

\* Map.set and Map.delete on activeNotes
MapSet(m, k, v) == [x \in (DOMAIN m) \cup {k} |-> IF x = k THEN v ELSE m[x]]
MapDelete(m, K) == [x \in (DOMAIN m) \ K |-> m[x]]

\* median(values)
Median(values) ==
  IF Len(values) = 0 THEN 64
  ELSE LET sorted == SortAsc(values)
           mid == Len(sorted) \div 2      \* 0-based index
       IN IF Len(sorted) % 2 = 0
          THEN (sorted[mid] + sorted[mid + 1] + 1) \div 2  \* Math.round of the mean
          ELSE sorted[mid + 1]

\* a blend that weighs the deviation by blend instead of 1 - blend
BlendVelocityInverted(original, median, blend) ==
  (20 * median + 2 * (original - median) * blend + 10) \div 20

\* a blend that counts the deviation twice
BlendVelocityDouble(original, median, blend) ==
  (20 * median + 4 * (original - median) * (10 - blend) + 10) \div 20

\* blendVelocity(original, median, blend), blend in tenths:
\* Math.round(median + (original - median) * (1 - blend))
BlendVelocity(original, median, blend) ==
  (20 * median + 2 * (original - median) * (10 - blend) + 10) \div 20

\* a classification whose cluster threshold is exclusive
ClassifyRoleAbove(hand, noteSet, pcs, windowMs) ==
  IF Len(pcs) > cfg.maxClusterSize THEN "Cluster"
  ELSE IF Len(pcs) >= 3 THEN "Chord"
  ELSE IF Len(pcs) = 2 THEN "Dyad"
  ELSE IF hand = "L" /\ windowMs > cfg.leftBassArpGapMs THEN "BassLine"
  ELSE "Arpeggio"

\* a classification without the Dyad role
ClassifyRoleNoDyad(hand, noteSet, pcs, windowMs) ==
  IF Len(pcs) >= cfg.maxClusterSize THEN "Cluster"
  ELSE IF Len(pcs) >= 2 THEN "Chord"
  ELSE IF hand = "L" /\ windowMs > cfg.leftBassArpGapMs THEN "BassLine"
  ELSE "Arpeggio"

\* a classification whose bass / arpeggio threshold is inclusive
ClassifyRoleInclusive(hand, noteSet, pcs, windowMs) ==
  IF Len(pcs) >= cfg.maxClusterSize THEN "Cluster"
  ELSE IF Len(pcs) >= 3 THEN "Chord"
  ELSE IF Len(pcs) = 2 THEN "Dyad"
  ELSE IF hand = "L" /\ windowMs >= cfg.leftBassArpGapMs THEN "BassLine"
  ELSE "Arpeggio"

\* a classification that asks for more than three pitch classes for a Chord
ClassifyRoleStrict(hand, noteSet, pcs, windowMs) ==
  IF Len(pcs) >= cfg.maxClusterSize THEN "Cluster"
  ELSE IF Len(pcs) > 3 THEN "Chord"
  ELSE IF Len(pcs) >= 2 THEN "Dyad"
  ELSE IF hand = "L" /\ windowMs > cfg.leftBassArpGapMs THEN "BassLine"
  ELSE "Arpeggio"

\* classifyRole(hand, noteSet, pcs, windowMs)
ClassifyRole(hand, noteSet, pcs, windowMs) ==
  IF Len(pcs) >= cfg.maxClusterSize THEN "Cluster"
  ELSE IF Len(pcs) >= 3 THEN "Chord"
  ELSE IF Len(pcs) = 2 THEN "Dyad"
  ELSE IF hand = "L" /\ windowMs > cfg.leftBassArpGapMs THEN "BassLine"
  ELSE "Arpeggio"

\* What tonal's Chord.detect does on one call: it raises, or it returns a list
\* of candidate names (the empty list stands for an empty or null-like result).
Detections ==
  { [throws |-> TRUE, names |-> <<>>],
    [throws |-> FALSE, names |-> <<>>],
    [throws |-> FALSE, names |-> <<"Em#5/C", "CM", "Cm">>] }

\* a choice that takes the first candidate as it comes
ShortestFirst(names) == names[1]

\* detected.sort((a, b) => a.length - b.length)[0]; the sort is stable
Shortest(names) ==
  LET i == CHOOSE j \in DOMAIN names:
             /\ \A k \in DOMAIN names: Len(names[j]) <= Len(names[k])
             /\ \A k \in 1..(j - 1): Len(names[k]) > Len(names[j])
  IN names[i]

\* detectChord(pcs), for a call on which Chord.detect does not raise
DetectChord(pcs, det) ==
  IF Len(det.names) = 0 THEN None ELSE Some(Shortest(det.names))

\* indexOf, 0-based, -1 when absent
IndexOf(s, x) ==
  IF \E i \in DOMAIN s: s[i] = x
  THEN (CHOOSE i \in DOMAIN s: s[i] = x /\ \A j \in 1..(i - 1): s[j] # x) - 1
  ELSE -1

-----------------------------------------------------------------------------
(* Subscribers *)

\* Callbacks the embedding application may register; "bad" raises when called.
Callbacks == {"good", "bad"}
Throwing == {"bad"}

\* Set.add / Set.delete, keeping insertion order
SetAdd(s, cb) == IF cb \in Range(s) THEN s ELSE Append(s, cb)
SetDelete(s, cb) == SelectSeq(s, LAMBDA x: x # cb)

\* for (const cb of callbacks) cb(evt): the callbacks reached, in order, up to
\* and including the first one that raises
Reached(cbs) ==
  IF \E i \in DOMAIN cbs: cbs[i] \in Throwing
  THEN SubSeq(cbs, 1, CHOOSE i \in DOMAIN cbs:
                        cbs[i] \in Throwing /\ \A j \in 1..(i - 1): cbs[j] \notin Throwing)
  ELSE cbs
Raises(cbs) == \E i \in DOMAIN cbs: cbs[i] \in Throwing

\* emitChord(evt): the call's record and whether it raised
EmitChord(evt) ==
  [ log |-> <<[evt |-> evt, to |-> Reached(chordCallbacks)]>>,
    threw |-> Raises(chordCallbacks) ]

-----------------------------------------------------------------------------
(* Internal buffer logic.  Each operator returns the buffer, the platform's  *)
(* pending timers, the log entries added and whether an error was raised.    *)

EmptyBuffer == [notes |-> <<>>, firstTime |-> None, timer |-> None, lastEmissionTime |-> 0]

\* a clearTimeout that cancels nothing
ClearTimeoutKeep(pend, hand, handle) == pend

\* a clearTimeout that goes by the handle's number alone, whatever the hand
ClearTimeoutAnyHand(pend, hand, handle) ==
  { t \in pend : Some(t.n) # handle }

\* clearTimeout(handle)
ClearTimeout(pend, hand, handle) ==
  { t \in pend : ~(t.hand = hand /\ Some(t.n) = handle) }

\* setTimeout(() => this.processBuffer(hand), delay): a fresh handle
NewTimer(pend, hand, delay) ==
  LET used == { t.n : t \in { u \in pend : u.hand = hand } }
      n == CHOOSE k \in 1..(Cardinality(used) + 1):
             k \notin used /\ \A j \in 1..(k - 1): j \in used
  IN [hand |-> hand, n |-> n, due |-> now + delay]

\* clearTimer(buf)
ClearTimer(hand, buf, pend) ==
  [ buf |-> [buf EXCEPT !.timer = None],
    pend |-> IF buf.timer # None THEN ClearTimeout(pend, hand, buf.timer) ELSE pend ]

\* resetBuffer(buf)
ResetBuffer(hand, buf, pend) ==
  LET c == ClearTimer(hand, buf, pend)
  IN [ buf |-> [c.buf EXCEPT !.notes = <<>>, !.firstTime = None],
       pend |-> c.pend ]

\* !buf.firstTime: null and 0 are both falsy
Falsy(firstTime) == firstTime = None \/ firstTime = Some(0)

\* a noteSet left in arrival order
NoteSetUnsorted(hand, buf, active) ==
  LET midis == [i \in DOMAIN buf.notes |-> buf.notes[i].midi]
      extra == { m \in DOMAIN active :
                   /\ active[m].hand = hand
                   /\ active[m].sustained
                   /\ m \notin Range(midis) }
  IN IF cfg.sustainIncludesBuffer
     THEN midis \o SetToSeq(extra)
     ELSE midis

\* a noteSet that also takes in the keys still held down
NoteSetHeld(hand, buf, active) ==
  LET midis == [i \in DOMAIN buf.notes |-> buf.notes[i].midi]
      extra == { m \in DOMAIN active :
                   /\ active[m].hand = hand
                   /\ m \notin Range(midis) }
  IN IF cfg.sustainIncludesBuffer
     THEN SortAsc(midis \o SetToSeq(extra))
     ELSE SortAsc(midis)

\* noteSet of processBuffer: buffered pitches, plus the sustained active notes of
\* the hand that are not among them, sorted ascending
NoteSet(hand, buf, active) ==
  LET midis == [i \in DOMAIN buf.notes |-> buf.notes[i].midi]
      extra == { m \in DOMAIN active :
                   /\ active[m].hand = hand
                   /\ active[m].sustained
                   /\ m \notin Range(midis) }
  IN IF cfg.sustainIncludesBuffer
     THEN SortAsc(midis \o SetToSeq(extra))
     ELSE SortAsc(midis)

\* Array.from(new Set(noteSet.map(n => n % 12))).sort((a, b) => a - b)
DistinctPitchClasses(noteSet) ==
  SetToSeq({ JsMod(noteSet[i], 12) : i \in DOMAIN noteSet })

\* a ChordEvent whose velocities follow the pitch order of the buffered notes
BuildEventByPitch(hand, buf, active, name) ==
  LET windowMs == now - buf.firstTime[1]
      noteSet == NoteSet(hand, buf, active)
      pcs == DistinctPitchClasses(noteSet)
      keyed == SortAsc([i \in DOMAIN buf.notes |->
                          128 * buf.notes[i].midi + buf.notes[i].velocity])
      raw == [i \in DOMAIN keyed |-> keyed[i] % 128]
      medianVel == Median(raw)
      blend == IF hand = "R" THEN cfg.velocityBlendRight ELSE cfg.velocityBlendLeft
      named == name # None /\ name # Some("") /\ Len(noteSet) > 0
      inversion == IF named THEN IndexOf(pcs, JsMod(noteSet[1], 12)) ELSE -1
  IN [ hand |-> hand,
       name |-> name,
       inversion |-> IF named /\ inversion # -1 THEN Some(inversion) ELSE None,
       notes |-> noteSet,
       velocities |-> [i \in DOMAIN raw |-> BlendVelocity(raw[i], medianVel, blend)],
       role |-> ClassifyRole(hand, noteSet, pcs, windowMs),
       root |-> IF named THEN Some(noteSet[1]) ELSE None,
       pitchClasses |-> pcs,
       timestamp |-> now,
       rawWindowMs |-> windowMs ]

\* the ChordEvent processBuffer builds; name is the result of detectChord
BuildEvent(hand, buf, active, name) ==
  LET windowMs == now - buf.firstTime[1]
      noteSet == NoteSet(hand, buf, active)
      pcs == DistinctPitchClasses(noteSet)
      raw == [i \in DOMAIN buf.notes |-> buf.notes[i].velocity]
      medianVel == Median(raw)
      blend == IF hand = "R" THEN cfg.velocityBlendRight ELSE cfg.velocityBlendLeft
      named == name # None /\ name # Some("") /\ Len(noteSet) > 0
      inversion == IF named THEN IndexOf(pcs, JsMod(noteSet[1], 12)) ELSE -1
  IN [ hand |-> hand,
       name |-> name,
       inversion |-> IF named /\ inversion # -1 THEN Some(inversion) ELSE None,
       notes |-> noteSet,
       velocities |-> [i \in DOMAIN raw |-> BlendVelocity(raw[i], medianVel, blend)],
       role |-> ClassifyRole(hand, noteSet, pcs, windowMs),
       root |-> IF named THEN Some(noteSet[1]) ELSE None,
       pitchClasses |-> pcs,
       timestamp |-> now,
       rawWindowMs |-> windowMs ]

\* processBuffer(hand); det is what Chord.detect does if it is called
ProcessBuffer(hand, buf, pend, active, det) ==
  IF Falsy(buf.firstTime) \/ Len(buf.notes) = 0
  THEN ResetBuffer(hand, buf, pend) @@ [log |-> <<>>, threw |-> FALSE]
  ELSE LET draft == BuildEvent(hand, buf, active, None)
           naming == draft.role \in {"Chord", "Dyad", "Cluster"}
       IN IF naming /\ det.throws
          THEN [buf |-> buf, pend |-> pend, log |-> <<>>, threw |-> TRUE]
          ELSE LET name == IF naming THEN DetectChord(draft.pitchClasses, det) ELSE None
                   e == EmitChord(BuildEvent(hand, buf, active, name))
               IN IF e.threw
                  THEN [buf |-> buf, pend |-> pend, log |-> e.log, threw |-> TRUE]
                  ELSE ResetBuffer(hand, buf, pend) @@ [log |-> e.log, threw |-> FALSE]

\* a pushToBuffer whose extension has no minimum delay
PushToBufferNoFloor(hand, buf, pend, active, note, det) ==
  LET cfgWindow == IF hand = "L" THEN cfg.chordWindowMsLeft ELSE cfg.chordWindowMsRight
      earlyCount == IF hand = "L" THEN cfg.earlyCloseCountLeft ELSE cfg.earlyCloseCountRight
      rollExtension == IF hand = "L" THEN cfg.rollExtensionMsLeft ELSE cfg.rollExtensionMsRight
  IN IF buf.firstTime = None
     THEN LET t == NewTimer(pend, hand, cfgWindow)
          IN [ buf |-> [buf EXCEPT !.firstTime = Some(note.time), !.notes = <<note>>,
                                   !.timer = Some(t.n)],
               pend |-> pend \cup {t}, log |-> <<>>, threw |-> FALSE ]
     ELSE LET pushed == [buf EXCEPT !.notes = Append(buf.notes, note)]
              elapsed == note.time - buf.firstTime[1]
          IN IF Len(pushed.notes) >= earlyCount /\ 10 * elapsed < 6 * cfgWindow
             THEN LET c == ClearTimer(hand, pushed, pend)
                  IN ProcessBuffer(hand, c.buf, c.pend, active, det)
             ELSE IF elapsed > cfgWindow /\ elapsed <= rollExtension
             THEN LET c == ClearTimer(hand, pushed, pend)
                      t == NewTimer(c.pend, hand, rollExtension - elapsed)
                  IN [ buf |-> [c.buf EXCEPT !.timer = Some(t.n)],
                       pend |-> c.pend \cup {t}, log |-> <<>>, threw |-> FALSE ]
             ELSE [buf |-> pushed, pend |-> pend, log |-> <<>>, threw |-> FALSE]

\* a pushToBuffer that still closes early at 60% of the window
PushToBufferEarlyAt(hand, buf, pend, active, note, det) ==
  LET cfgWindow == IF hand = "L" THEN cfg.chordWindowMsLeft ELSE cfg.chordWindowMsRight
      earlyCount == IF hand = "L" THEN cfg.earlyCloseCountLeft ELSE cfg.earlyCloseCountRight
      rollExtension == IF hand = "L" THEN cfg.rollExtensionMsLeft ELSE cfg.rollExtensionMsRight
  IN IF buf.firstTime = None
     THEN LET t == NewTimer(pend, hand, cfgWindow)
          IN [ buf |-> [buf EXCEPT !.firstTime = Some(note.time), !.notes = <<note>>,
                                   !.timer = Some(t.n)],
               pend |-> pend \cup {t}, log |-> <<>>, threw |-> FALSE ]
     ELSE LET pushed == [buf EXCEPT !.notes = Append(buf.notes, note)]
              elapsed == note.time - buf.firstTime[1]
          IN IF Len(pushed.notes) >= earlyCount /\ 10 * elapsed <= 6 * cfgWindow
             THEN LET c == ClearTimer(hand, pushed, pend)
                  IN ProcessBuffer(hand, c.buf, c.pend, active, det)
             ELSE IF elapsed > cfgWindow /\ elapsed <= rollExtension
             THEN LET c == ClearTimer(hand, pushed, pend)
                      t == NewTimer(c.pend, hand, Max(10, rollExtension - elapsed))
                  IN [ buf |-> [c.buf EXCEPT !.timer = Some(t.n)],
                       pend |-> c.pend \cup {t}, log |-> <<>>, threw |-> FALSE ]
             ELSE [buf |-> pushed, pend |-> pend, log |-> <<>>, threw |-> FALSE]

\* pushToBuffer(hand, note)
PushToBuffer(hand, buf, pend, active, note, det) ==
  LET cfgWindow == IF hand = "L" THEN cfg.chordWindowMsLeft ELSE cfg.chordWindowMsRight
      earlyCount == IF hand = "L" THEN cfg.earlyCloseCountLeft ELSE cfg.earlyCloseCountRight
      rollExtension == IF hand = "L" THEN cfg.rollExtensionMsLeft ELSE cfg.rollExtensionMsRight
  IN IF buf.firstTime = None
     THEN LET t == NewTimer(pend, hand, cfgWindow)
          IN [ buf |-> [buf EXCEPT !.firstTime = Some(note.time), !.notes = <<note>>,
                                   !.timer = Some(t.n)],
               pend |-> pend \cup {t}, log |-> <<>>, threw |-> FALSE ]
     ELSE LET pushed == [buf EXCEPT !.notes = Append(buf.notes, note)]
              elapsed == note.time - buf.firstTime[1]
          IN IF Len(pushed.notes) >= earlyCount /\ 10 * elapsed < 6 * cfgWindow
             THEN LET c == ClearTimer(hand, pushed, pend)
                  IN ProcessBuffer(hand, c.buf, c.pend, active, det)
             ELSE IF elapsed > cfgWindow /\ elapsed <= rollExtension
             THEN LET c == ClearTimer(hand, pushed, pend)
                      t == NewTimer(c.pend, hand, Max(10, rollExtension - elapsed))
                  IN [ buf |-> [c.buf EXCEPT !.timer = Some(t.n)],
                       pend |-> c.pend \cup {t}, log |-> <<>>, threw |-> FALSE ]
             ELSE [buf |-> pushed, pend |-> pend, log |-> <<>>, threw |-> FALSE]

-----------------------------------------------------------------------------
(* Adaptive split logic *)

\* recomputeSplit(): the split point it leaves
Candidate(history) ==
  LET sorted == SortAsc(history)
      lowQuartile == sorted[(Len(sorted) \div 4) + 1]
      highQuartile == sorted[((3 * Len(sorted)) \div 4) + 1]
  IN (lowQuartile + highQuartile + 1) \div 2      \* Math.round of the midpoint

\* an estimator that is content with four pitches
NewSplitEager(history, split) ==
  LET center == Candidate(history)
  IN IF Len(history) >= 4 /\ Abs(center - split) >= cfg.splitShiftThreshold
     THEN Min(cfg.splitMax, Max(cfg.splitMin, center))
     ELSE split

\* an estimator that does not clamp
NewSplitUnclamped(history, split) ==
  LET center == Candidate(history)
  IN IF Len(history) >= 8 /\ Abs(center - split) >= cfg.splitShiftThreshold
     THEN center
     ELSE split

\* an estimator that clamps from below only
NewSplitFloor(history, split) ==
  LET center == Candidate(history)
  IN IF Len(history) >= 8 /\ Abs(center - split) >= cfg.splitShiftThreshold
     THEN Max(cfg.splitMin, center)
     ELSE split

NewSplit(history, split) ==
  LET center == Candidate(history)
  IN IF Len(history) >= 8 /\ Abs(center - split) >= cfg.splitShiftThreshold
     THEN Min(cfg.splitMax, Max(cfg.splitMin, center))
     ELSE split

\* this.recentNoteOns.splice(0, length - 128) when length > 128
Trimmed(history) ==
  IF Len(history) > 128 THEN SubSeq(history, Len(history) - 127, Len(history)) ELSE history

-----------------------------------------------------------------------------
(* State after construction *)

\* the second engine after construction, and no event seen from either engine
TwinInit ==
  [ bufferL |-> EmptyBuffer, bufferR |-> EmptyBuffer, timers |-> {},
    activeNotes |-> <<>>, seen |-> <<>>, own |-> <<>> ]

InitWith(configs) ==
  /\ cfg \in configs
  /\ now = 1
  /\ splitPoint = cfg.splitInitialMidi
  /\ chordCallbacks = <<>>
  /\ splitCallbacks = <<>>
  /\ bufferL = EmptyBuffer
  /\ bufferR = EmptyBuffer
  /\ activeNotes = <<>>
  /\ pedalDown = FALSE
  /\ recentNoteOns = <<>>
  /\ adaptTimer = [active |-> TRUE, due |-> now + cfg.splitAdaptIntervalMs]
  /\ disposed = FALSE
  /\ timers = {}
  /\ emitted = <<>>
  /\ splitEmitted = <<>>
  /\ threw = FALSE
  /\ chordCount = 0
  /\ splitCount = 0
  /\ noteCount = 0
  /\ lastCall = "constructor"
  /\ lastStamp = 0
  /\ played = <<>>
  /\ sinceTick = None
  /\ unsub = [held |-> {}, spent |-> {}]
  /\ twin = TwinInit

Init == InitWith(Configs)

-----------------------------------------------------------------------------
(* Public API *)

\* onChord(cb)
OnChord(cb) ==
  /\ chordCallbacks' = SetAdd(chordCallbacks, cb)
  /\ Quiet
  /\ UNCHANGED <<engine, splitCallbacks, calls, now>>

\* the closure onChord(cb) returned: () => this.chordCallbacks.delete(cb)
OffChord(cb) ==
  /\ chordCallbacks' = SetDelete(chordCallbacks, cb)
  /\ Quiet
  /\ UNCHANGED <<engine, splitCallbacks, calls, now>>

\* onSplitChange(cb)
OnSplitChange(cb) ==
  /\ splitCallbacks' = SetAdd(splitCallbacks, cb)
  /\ Quiet
  /\ UNCHANGED <<engine, chordCallbacks, calls, now>>

\* the closure onSplitChange(cb) returned: () => this.splitCallbacks.delete(cb)
OffSplit(cb) ==
  /\ splitCallbacks' = SetDelete(splitCallbacks, cb)
  /\ Quiet
  /\ UNCHANGED <<engine, chordCallbacks, calls, now>>

\* dispose()
Dispose ==
  /\ lastCall' = "dispose"
  /\ disposed' = TRUE
  /\ timers' = ClearTimeout(ClearTimeout(timers, "L", bufferL.timer), "R", bufferR.timer)
  /\ adaptTimer' = [adaptTimer EXCEPT !.active = FALSE]
  /\ chordCallbacks' = <<>>
  /\ splitCallbacks' = <<>>
  /\ Quiet
  /\ UNCHANGED <<cfg, splitPoint, bufferL, bufferR, activeNotes, pedalDown,
                 recentNoteOns, noteCount, lastStamp, played, sinceTick, now>>

-----------------------------------------------------------------------------
(* Event entry points *)

Buf(hand) == IF hand = "L" THEN bufferL ELSE bufferR

\* a hand taken from the configured initial split instead of the current one
HandOfInitial(midi, split) == IF midi < cfg.splitInitialMidi THEN "L" ELSE "R"

\* hand of handleNoteOn
HandOf(midi, split) == IF midi < split THEN "L" ELSE "R"

\* a handleNoteOn that keeps the sustained flag of the entry it finds
HandleNoteOnKeep(midi, velocity, time, det) ==
  /\ lastCall' = "handleNoteOn"
  /\ noteCount' = noteCount + 1
  /\ lastStamp' = time
  /\ IF disposed
     THEN /\ Quiet
          /\ UNCHANGED <<engine, subs, played, sinceTick, now>>
     ELSE LET hand == HandOf(midi, splitPoint)
              note == [midi |-> midi, velocity |-> velocity, time |-> time]
              kept == midi \in DOMAIN activeNotes /\ activeNotes[midi].sustained
              active == MapSet(activeNotes, midi,
                               note @@ [sustained |-> kept, hand |-> hand])
              r == PushToBuffer(hand, Buf(hand), timers, active, note, det)
          IN /\ activeNotes' = active
             /\ played' = Append(played, [midi |-> midi, hand |-> hand])
             /\ sinceTick' = IF sinceTick = None THEN None ELSE Some(sinceTick[1] + 1)
             /\ recentNoteOns' = Append(recentNoteOns, midi)
             /\ bufferL' = IF hand = "L" THEN r.buf ELSE bufferL
             /\ bufferR' = IF hand = "R" THEN r.buf ELSE bufferR
             /\ timers' = r.pend
             /\ emitted' = r.log
             /\ chordCount' = chordCount + Len(r.log)
             /\ threw' = r.threw
             /\ splitEmitted' = <<>>
             /\ UNCHANGED <<cfg, splitPoint, pedalDown, adaptTimer, disposed,
                            subs, splitCount, now>>

\* handleNoteOn(midi, velocity, time)
HandleNoteOn(midi, velocity, time, det) ==
  /\ lastCall' = "handleNoteOn"
  /\ noteCount' = noteCount + 1
  /\ lastStamp' = time
  /\ IF disposed
     THEN /\ Quiet
          /\ UNCHANGED <<engine, subs, played, sinceTick, now>>
     ELSE LET hand == HandOf(midi, splitPoint)
              note == [midi |-> midi, velocity |-> velocity, time |-> time]
              active == MapSet(activeNotes, midi,
                               note @@ [sustained |-> FALSE, hand |-> hand])
              r == PushToBuffer(hand, Buf(hand), timers, active, note, det)
          IN /\ activeNotes' = active
             /\ played' = Append(played, [midi |-> midi, hand |-> hand])
             /\ sinceTick' = IF sinceTick = None THEN None ELSE Some(sinceTick[1] + 1)
             /\ recentNoteOns' = Append(recentNoteOns, midi)
             /\ bufferL' = IF hand = "L" THEN r.buf ELSE bufferL
             /\ bufferR' = IF hand = "R" THEN r.buf ELSE bufferR
             /\ timers' = r.pend
             /\ emitted' = r.log
             /\ chordCount' = chordCount + Len(r.log)
             /\ threw' = r.threw
             /\ splitEmitted' = <<>>
             /\ UNCHANGED <<cfg, splitPoint, pedalDown, adaptTimer, disposed,
                            subs, splitCount, now>>

\* a handleNoteOff that ignores the pedal
HandleNoteOffNoPedal(midi) ==
  /\ lastCall' = "handleNoteOff"
  /\ activeNotes' =
       IF disposed \/ midi \notin DOMAIN activeNotes THEN activeNotes
       ELSE MapDelete(activeNotes, {midi})
  /\ Quiet
  /\ UNCHANGED <<cfg, splitPoint, bufferL, bufferR, pedalDown, recentNoteOns,
                 adaptTimer, disposed, timers, subs, noteCount, lastStamp, played, sinceTick, now>>

\* a handleNoteOff that also takes the released key out of the open windows
HandleNoteOffFlush(midi) ==
  /\ lastCall' = "handleNoteOff"
  /\ activeNotes' =
       IF disposed \/ midi \notin DOMAIN activeNotes THEN activeNotes
       ELSE IF pedalDown THEN [activeNotes EXCEPT ![midi].sustained = TRUE]
       ELSE MapDelete(activeNotes, {midi})
  /\ bufferL' = [bufferL EXCEPT !.notes = SelectSeq(@, LAMBDA n: n.midi # midi)]
  /\ bufferR' = [bufferR EXCEPT !.notes = SelectSeq(@, LAMBDA n: n.midi # midi)]
  /\ Quiet
  /\ UNCHANGED <<cfg, splitPoint, pedalDown, recentNoteOns,
                 adaptTimer, disposed, timers, subs, noteCount, lastStamp, played, sinceTick, now>>

\* handleNoteOff(midi)
HandleNoteOff(midi) ==
  /\ lastCall' = "handleNoteOff"
  /\ activeNotes' =
       IF disposed \/ midi \notin DOMAIN activeNotes THEN activeNotes
       ELSE IF pedalDown THEN [activeNotes EXCEPT ![midi].sustained = TRUE]
       ELSE MapDelete(activeNotes, {midi})
  /\ Quiet
  /\ UNCHANGED <<cfg, splitPoint, bufferL, bufferR, pedalDown, recentNoteOns,
                 adaptTimer, disposed, timers, subs, noteCount, lastStamp, played, sinceTick, now>>

\* a handleControlChange whose pedal release deletes nothing
HandleControlChangeKeep(controller, value) ==
  LET down == value >= 64
      press == ~disposed /\ controller = 64 /\ down /\ ~pedalDown
      release == ~disposed /\ controller = 64 /\ ~down /\ pedalDown
  IN /\ lastCall' = "handleControlChange"
     /\ pedalDown' = IF press THEN TRUE ELSE IF release THEN FALSE ELSE pedalDown
     /\ activeNotes' = activeNotes
     /\ Quiet
     /\ UNCHANGED <<cfg, splitPoint, bufferL, bufferR, recentNoteOns, adaptTimer,
                    disposed, timers, subs, noteCount, lastStamp, played, sinceTick, now>>

\* a handleControlChange that treats every controller as the pedal
HandleControlChangeAnyController(controller, value) ==
  LET down == value >= 64
      press == ~disposed /\ down /\ ~pedalDown
      release == ~disposed /\ ~down /\ pedalDown
  IN /\ lastCall' = "handleControlChange"
     /\ pedalDown' = IF press THEN TRUE ELSE IF release THEN FALSE ELSE pedalDown
     /\ activeNotes' =
          IF release
          THEN MapDelete(activeNotes, { m \in DOMAIN activeNotes : activeNotes[m].sustained })
          ELSE activeNotes
     /\ Quiet
     /\ UNCHANGED <<cfg, splitPoint, bufferL, bufferR, recentNoteOns, adaptTimer,
                    disposed, timers, subs, noteCount, lastStamp, played, sinceTick, now>>

\* handleControlChange(controller, value)
HandleControlChange(controller, value) ==
  LET down == value >= 64
      press == ~disposed /\ controller = 64 /\ down /\ ~pedalDown
      release == ~disposed /\ controller = 64 /\ ~down /\ pedalDown
  IN /\ lastCall' = "handleControlChange"
     /\ pedalDown' = IF press THEN TRUE ELSE IF release THEN FALSE ELSE pedalDown
     /\ activeNotes' =
          IF release
          THEN MapDelete(activeNotes, { m \in DOMAIN activeNotes : activeNotes[m].sustained })
          ELSE activeNotes
     /\ Quiet
     /\ UNCHANGED <<cfg, splitPoint, bufferL, bufferR, recentNoteOns, adaptTimer,
                    disposed, timers, subs, noteCount, lastStamp, played, sinceTick, now>>

-----------------------------------------------------------------------------
(* Timers and the clock *)

\* a pending close timer fires: () => this.processBuffer(hand)
CloseTimer(t, det) ==
  /\ lastCall' = "closeTimer"
  /\ t \in timers
  /\ t.due <= now
  /\ LET r == ProcessBuffer(t.hand, Buf(t.hand), timers \ {t}, activeNotes, det)
     IN /\ bufferL' = IF t.hand = "L" THEN r.buf ELSE bufferL
        /\ bufferR' = IF t.hand = "R" THEN r.buf ELSE bufferR
        /\ timers' = r.pend
        /\ emitted' = r.log
        /\ chordCount' = chordCount + Len(r.log)
        /\ threw' = r.threw
  /\ splitEmitted' = <<>>
  /\ UNCHANGED <<cfg, splitPoint, activeNotes, pedalDown, recentNoteOns, adaptTimer,
                 disposed, subs, splitCount, noteCount, lastStamp, played, sinceTick, now>>

\* emitSplitChange(): the log entry it leaves
EmitSplitChange(split) ==
  <<[evt |-> [splitMidi |-> split, timestamp |-> now], to |-> Reached(splitCallbacks)]>>

\* a tick that relabels the active notes by the split point it leaves
RecomputeSplitRelabel ==
  /\ lastCall' = "recomputeSplit"
  /\ adaptTimer.active
  /\ adaptTimer.due <= now
  /\ adaptTimer' = [adaptTimer EXCEPT !.due = now + cfg.splitAdaptIntervalMs]
  /\ LET newSplit == NewSplit(recentNoteOns, splitPoint)
         changed == newSplit # splitPoint
         raised == changed /\ Raises(splitCallbacks)
     IN /\ splitPoint' = newSplit
        /\ splitEmitted' = IF changed THEN EmitSplitChange(newSplit) ELSE <<>>
        /\ splitCount' = IF changed THEN splitCount + 1 ELSE splitCount
        /\ threw' = raised
        /\ recentNoteOns' = IF Len(recentNoteOns) < 8 \/ raised
                            THEN recentNoteOns
                            ELSE Trimmed(recentNoteOns)
        /\ activeNotes' = [m \in DOMAIN activeNotes |->
                             [activeNotes[m] EXCEPT !.hand = HandOf(m, newSplit)]]
  /\ emitted' = <<>>
  /\ sinceTick' = Some(0)
  /\ UNCHANGED <<cfg, bufferL, bufferR, pedalDown, disposed, timers,
                 subs, chordCount, noteCount, lastStamp, played, now>>

\* the interval fires: () => this.recomputeSplit()
RecomputeSplit ==
  /\ lastCall' = "recomputeSplit"
  /\ adaptTimer.active
  /\ adaptTimer.due <= now
  /\ adaptTimer' = [adaptTimer EXCEPT !.due = now + cfg.splitAdaptIntervalMs]
  /\ LET newSplit == NewSplit(recentNoteOns, splitPoint)
         changed == newSplit # splitPoint
         raised == changed /\ Raises(splitCallbacks)
     IN /\ splitPoint' = newSplit
        /\ splitEmitted' = IF changed THEN EmitSplitChange(newSplit) ELSE <<>>
        /\ splitCount' = IF changed THEN splitCount + 1 ELSE splitCount
        /\ threw' = raised
        /\ recentNoteOns' = IF Len(recentNoteOns) < 8 \/ raised
                            THEN recentNoteOns
                            ELSE Trimmed(recentNoteOns)
  /\ emitted' = <<>>
  /\ sinceTick' = Some(0)
  /\ UNCHANGED <<cfg, bufferL, bufferR, activeNotes, pedalDown, disposed, timers,
                 subs, chordCount, noteCount, lastStamp, played, now>>

\* the deadlines still ahead
Deadlines ==
  { t.due : t \in timers } \cup (IF adaptTimer.active THEN {adaptTimer.due} ELSE {})

\* time passes: by step milliseconds, or up to the next deadline
Advance(limit, step) ==
  /\ now < limit
  /\ \/ now' = now + step
     \/ /\ \E d \in Deadlines: d > now
        /\ now' = CHOOSE d \in Deadlines: d > now /\ \A e \in Deadlines: e > now => d <= e
  /\ Quiet
  /\ UNCHANGED <<engine, subs, calls, ghosts>>

-----------------------------------------------------------------------------
(* The environment: what is played, and the specifications *)

\* the time argument of handleNoteOn: performance.now() by default, or the
\* caller's own timestamp; timestamps arrive in non-decreasing order
Stamps(explicit) == { t \in explicit \cup {now} : t >= lastStamp }

\* sent: the (midi, velocity) pairs the input device may send
NoteOn(sent, explicit, dets, limit) ==
  /\ noteCount < limit
  /\ \E p \in sent, t \in Stamps(explicit), det \in dets:
       HandleNoteOn(p[1], p[2], t, det)
  /\ UNCHANGED ghosts

NoteOff(keys) ==
  /\ \E m \in keys: HandleNoteOff(m)
  /\ UNCHANGED ghosts

\* the pedal controller and another one, values on both sides of the threshold
ControlChange ==
  /\ \E c \in {1, 64}, v \in {63, 64}: HandleControlChange(c, v)
  /\ UNCHANGED ghosts

SubscribeChord(cbs) ==
  /\ \E cb \in cbs: OnChord(cb) \/ OffChord(cb)
  /\ UNCHANGED ghosts

SubscribeSplit(cbs) ==
  /\ \E cb \in cbs: OnSplitChange(cb) \/ OffSplit(cb)
  /\ UNCHANGED ghosts

Fire(dets) ==
  /\ \E t \in timers, det \in dets: CloseTimer(t, det)
  /\ UNCHANGED ghosts

\* the estimator's interval fires: () => this.recomputeSplit()
Tick ==
  /\ RecomputeSplit
  /\ UNCHANGED ghosts

\* the caller disposes of the engine
Shutdown ==
  /\ Dispose
  /\ UNCHANGED ghosts

\* a collaborator that answers (with candidates or with none) and never raises
Answers == { d \in Detections : ~d.throws }

\* onChord(cb) or onSplitChange(cb), and the closure it returns: the n-th one
\* handed out for this callback
Subscribe(kind, cb) ==
  LET given == { f \in unsub.held : f.kind = kind /\ f.cb = cb }
  IN /\ Cardinality(given) < MaxSubs
     /\ IF kind = "chord" THEN OnChord(cb) ELSE OnSplitChange(cb)
     /\ unsub' = [unsub EXCEPT
                    !.held = @ \cup {[kind |-> kind, cb |-> cb, n |-> Cardinality(given) + 1]}]
     /\ UNCHANGED twin

\* the caller calls a closure it was handed, for the first time or again
Unsubscribe(f) ==
  /\ f \in unsub.held
  /\ IF f.kind = "chord" THEN OffChord(f.cb) ELSE OffSplit(f.cb)
  /\ unsub' = [unsub EXCEPT !.spent = @ \cup {f}]
  /\ UNCHANGED twin

\* what the outcome of an event log is compared on: hand, role and pitches
Seen(log) ==
  [ i \in DOMAIN log |->
      [ hand |-> log[i].evt.hand, role |-> log[i].evt.role,
        notes |-> log[i].evt.notes, pitchClasses |-> log[i].evt.pitchClasses ] ]

TwinBuf(hand) == IF hand = "L" THEN twin.bufferL ELSE twin.bufferR

\* the same handleNoteOn call, with the same timestamp, on both engines
TwinNoteOn(sent, dets, limit) ==
  /\ noteCount < limit
  /\ \E p \in sent, det \in dets:
       /\ HandleNoteOn(p[1], p[2], now, det)
       /\ LET hand == HandOf(p[1], splitPoint)
              note == [midi |-> p[1], velocity |-> p[2], time |-> now]
              active == MapSet(twin.activeNotes, p[1],
                               note @@ [sustained |-> FALSE, hand |-> hand])
              r == PushToBuffer(hand, TwinBuf(hand), twin.timers, active, note, det)
          IN twin' = [ bufferL |-> IF hand = "L" THEN r.buf ELSE twin.bufferL,
                       bufferR |-> IF hand = "R" THEN r.buf ELSE twin.bufferR,
                       timers |-> r.pend,
                       activeNotes |-> active,
                       seen |-> twin.seen \o Seen(r.log),
                       own |-> twin.own \o Seen(emitted') ]
  /\ UNCHANGED unsub

\* a close timer of the first engine fires
OwnFire(dets) ==
  /\ \E t \in timers, det \in dets: CloseTimer(t, det)
  /\ twin' = [twin EXCEPT !.own = @ \o Seen(emitted')]
  /\ UNCHANGED unsub

\* a close timer of the second engine fires: () => this.processBuffer(hand)
TwinFire(dets) ==
  /\ \E t \in twin.timers, det \in dets:
       /\ t.due <= now
       /\ LET r == ProcessBuffer(t.hand, TwinBuf(t.hand), twin.timers \ {t},
                                 twin.activeNotes, det)
          IN twin' = [twin EXCEPT
                        !.bufferL = IF t.hand = "L" THEN r.buf ELSE @,
                        !.bufferR = IF t.hand = "R" THEN r.buf ELSE @,
                        !.timers = r.pend,
                        !.seen = @ \o Seen(r.log)]
  /\ Quiet
  /\ UNCHANGED <<engine, subs, calls, unsub, now>>

\* Life cycle: every entry point, both subscriptions, dispose.
LifePlayed == { <<48, 100>>, <<60, 100>> }

Next ==
  \/ NoteOn(LifePlayed, {}, Detections, MaxCalls)
  \/ NoteOff({ p[1] : p \in LifePlayed })
  \/ ControlChange
  \/ SubscribeChord({"bad"})
  \/ SubscribeSplit({"good"})
  \/ Shutdown
  \/ Fire(Detections)
  \/ Tick
  \/ Advance(MaxLifeTime, 1)

Spec == InitWith({MergeConfig(FastConfig)}) /\ [][Next]_vars

\* Windowing: both hands, a malformed byte pair (128, 200), caller timestamps,
\* a collaborator that may fail and subscribers that may raise.
WindowPlayed == { <<48, 100>>, <<60, 100>>, <<128, 200>> }

NextWindow ==
  \/ NoteOn(WindowPlayed, {0}, Detections, MaxNotes)
  \/ SubscribeChord(Callbacks)
  \/ Fire(Detections)
  \/ Advance(MaxTime, 1)

SpecWindow == Init /\ [][NextWindow]_vars

\* Sustain: keys pressed and released with the pedal.
HeldPlayed == { <<48, 100>>, <<60, 100>>, <<64, 90>> }

NextSustain ==
  \/ NoteOn(HeldPlayed, {}, Answers, MaxHeld)
  \/ NoteOff({ p[1] : p \in HeldPlayed })
  \/ ControlChange
  \/ Fire(Answers)
  \/ Advance(MaxHeldTime, 1)

SpecSustain == Init /\ [][NextSustain]_vars

\* Split adaptation: the player repeats the first key WarmUp times at once,
\* then plays freely while the clock runs and the estimator ticks.
SplitPlayed == { <<55, 100>>, <<72, 100>> }

WarmUpNote ==
  /\ 0 < noteCount
  /\ noteCount < WarmUp
  /\ \E det \in Answers: HandleNoteOn(recentNoteOns[1], 100, now, det)
  /\ UNCHANGED ghosts

NextSplit ==
  \/ (noteCount = 0 \/ noteCount >= WarmUp) /\ NoteOn(SplitPlayed, {}, Answers, MaxSplitNotes)
  \/ WarmUpNote
  \/ Fire(Answers)
  \/ Tick
  \/ noteCount >= WarmUp /\ Advance(MaxSplitTime, 1)

SpecSplit == InitWith({MergeConfig(FastConfig)}) /\ [][NextSplit]_vars

\* Long histories: split subscribers register first, the player repeats the
\* first key LongWarmUp times at once, then plays on while the estimator ticks.
TickPlayed == { <<55, 100>>, <<72, 100>> }

LongWarmUpNote ==
  /\ 0 < noteCount
  /\ noteCount < LongWarmUp
  /\ \E det \in Answers: HandleNoteOn(recentNoteOns[1], 100, now, det)
  /\ UNCHANGED ghosts

NextTick ==
  \/ noteCount = 0 /\ SubscribeSplit(Callbacks)
  \/ (noteCount = 0 \/ noteCount >= LongWarmUp) /\ NoteOn(TickPlayed, {}, Answers, MaxTickNotes)
  \/ LongWarmUpNote
  \/ Fire(Answers)
  \/ Tick
  \/ noteCount >= LongWarmUp /\ Advance(MaxTickTime, 1)

SpecTick == InitWith({MergeConfig(FastConfig)}) /\ [][NextTick]_vars

\* Sustained context: keys of both hands pressed, released with the pedal
\* down, and windows that close while they still sound.
ContextPlayed == { <<48, 100>>, <<60, 100>>, <<64, 90>> }

\* a collaborator that finds no name
Unnamed == { d \in Answers : d.names = <<>> }

\* the pedal goes fully down or fully up
Pedal ==
  /\ \E v \in {0, 127}: HandleControlChange(64, v)
  /\ UNCHANGED ghosts

NextContext ==
  \/ NoteOn(ContextPlayed, {}, Unnamed, MaxContextNotes)
  \/ NoteOff({48, 60})
  \/ Pedal
  \/ Fire(Unnamed)
  \/ Advance(MaxContextTime, 1)

SpecContext == InitWith(ContextConfigs) /\ [][NextContext]_vars

\* Naming: left-hand keys whose lowest pitch is not the lowest pitch class,
\* and a collaborator that answers or raises.
NamingPlayed == { <<47, 80>>, <<48, 80>>, <<50, 80>> }

NextNaming ==
  \/ NoteOn(NamingPlayed, {}, Detections, MaxNamingNotes)
  \/ Fire(Detections)
  \/ Advance(MaxNamingTime, 1)

SpecNaming == InitWith(NamingConfigs) /\ [][NextNaming]_vars

\* Restrikes: 60 is struck at velocity 100 at any time, and at velocity 70
\* only while its entry is sustained by the pedal.
RestrikePlayed == { <<48, 80>>, <<60, 100>> }
RestrikeSoft == <<60, 70>>

Restrike ==
  /\ noteCount < MaxRestrikeNotes
  /\ RestrikeSoft[1] \in DOMAIN activeNotes
  /\ activeNotes[RestrikeSoft[1]].sustained
  /\ \E det \in Unnamed: HandleNoteOn(RestrikeSoft[1], RestrikeSoft[2], now, det)
  /\ UNCHANGED ghosts

NextRestrike ==
  \/ NoteOn(RestrikePlayed, {}, Unnamed, MaxRestrikeNotes)
  \/ Restrike
  \/ NoteOff({48, 60})
  \/ Pedal
  \/ Fire(Unnamed)
  \/ Advance(MaxRestrikeTime, 1)

SpecRestrike == InitWith({MergeConfig(FastConfig)}) /\ [][NextRestrike]_vars

\* Fair runs: no dispose and no subscriber; the clock reaches every pending
\* deadline and a close timer that is due fires.  Note-ons carry the clock or
\* the caller's own timestamp, which need not equal it.
LivePlayed == { <<48, 100>>, <<50, 100>> }
LiveStamps == {2}

\* the clock reaches the deadline of the next pending close timer
Await ==
  /\ \E t \in timers: t.due > now
  /\ now' = CHOOSE d \in { t.due : t \in timers }:
               d > now /\ \A t \in timers: t.due > now => d <= t.due
  /\ Quiet
  /\ UNCHANGED <<engine, subs, calls, ghosts>>

NextLive ==
  \/ NoteOn(LivePlayed, LiveStamps, Detections, MaxLiveNotes)
  \/ Fire(Detections)
  \/ Advance(MaxLiveTime, 1)
  \/ Await

SpecLive ==
  /\ InitWith({MergeConfig(RollConfig)})
  /\ [][NextLive]_vars
  /\ WF_vars(Fire(Detections))
  /\ WF_vars(Await)

\* Clamping: the player repeats a key below, inside or above the split range
\* ClampWarmUp times at once, then plays on while the estimator ticks.
ClampPlayed == { <<40, 100>>, <<55, 100>>, <<80, 100>> }

ClampWarmUpNote ==
  /\ 0 < noteCount
  /\ noteCount < ClampWarmUp
  /\ \E det \in Unnamed: HandleNoteOn(recentNoteOns[1], 100, now, det)
  /\ UNCHANGED ghosts

NextClamp ==
  \/ (noteCount = 0 \/ noteCount >= ClampWarmUp) /\ NoteOn(ClampPlayed, {}, Unnamed, MaxClampNotes)
  \/ ClampWarmUpNote
  \/ Fire(Unnamed)
  \/ Tick
  \/ noteCount >= ClampWarmUp /\ Advance(MaxClampTime, 1)

SpecClamp == InitWith(ClampConfigs) /\ [][NextClamp]_vars

\* Punctual timers: note-ons carry the clock, and the clock does not pass the
\* deadline of a pending close timer before that timer has fired.
PunctualPlayed == { <<48, 100>>, <<50, 100>>, <<60, 100>> }

NoneOverdue == \A t \in timers: t.due > now

NextPunctual ==
  \/ NoteOn(PunctualPlayed, {}, Detections, MaxPunctualNotes)
  \/ Fire(Detections)
  \/ NoneOverdue /\ Advance(MaxPunctualTime, 1)

SpecPunctual == InitWith(RollConfigs) /\ [][NextPunctual]_vars

\* Blending: right-hand keys, each with its own velocity, from 0 to 127.
BlendPlayed == { <<60, 0>>, <<61, 1>>, <<62, 64>>, <<64, 127>> }

NextBlend ==
  \/ NoteOn(BlendPlayed, {}, Unnamed, MaxBlendNotes)
  \/ Fire(Unnamed)
  \/ Advance(MaxBlendTime, 1)

SpecBlend == InitWith(BlendConfigs) /\ [][NextBlend]_vars

\* Default configuration: the keys of a C major triad and one bass key, the
\* clock advancing in steps of 5 ms.
DefaultPlayed == { <<60, 100>>, <<64, 90>>, <<67, 95>>, <<48, 100>> }

NextDefault ==
  \/ NoteOn(DefaultPlayed, {}, Answers, MaxDefaultNotes)
  \/ Fire(Answers)
  \/ Advance(MaxDefaultTime, 5)

SpecDefault == InitWith({MergeConfig(<<>>)}) /\ [][NextDefault]_vars

\* Classification: keys of both hands, two of them an octave apart, with
\* velocities whose means are not whole numbers.
RolePlayed == { <<36, 80>>, <<48, 100>>, <<50, 61>>, <<60, 100>>, <<64, 91>> }

NextRoles ==
  \/ NoteOn(RolePlayed, {}, Answers, MaxRoleNotes)
  \/ Fire(Answers)
  \/ Advance(MaxRoleTime, 1)

SpecRoles == InitWith(RoleConfigs) /\ [][NextRoles]_vars

\* Chromatic runs: the player starts on 48 or on 60 and goes up by semitones.
ScaleNext ==
  IF played = <<>> THEN { <<48, 100>>, <<60, 100>> }
  ELSE { <<played[1].midi + noteCount, 100>> }

NextScale ==
  \/ NoteOn(ScaleNext, {}, Answers, MaxScaleNotes)
  \/ Fire(Answers)
  \/ Advance(MaxScaleTime, 1)

SpecScale == InitWith(ScaleConfigs) /\ [][NextScale]_vars

\* Rolled chords: notes that arrive while a close timer is late.
RollPlayed == { <<48, 100>>, <<60, 100>> }

NextRoll ==
  \/ NoteOn(RollPlayed, {}, Answers, MaxRollNotes)
  \/ Fire(Answers)
  \/ Advance(MaxRollTime, 1)

SpecRoll == InitWith(RollConfigs) /\ [][NextRoll]_vars

\* Subscriptions: closures handed out, called and called again, around a
\* dispose and a played note.
SubPlayed == { <<60, 100>> }

NextSubs ==
  \/ \E cb \in Callbacks: Subscribe("chord", cb)
  \/ Subscribe("split", "good")
  \/ \E f \in unsub.held: Unsubscribe(f)
  \/ Shutdown
  \/ NoteOn(SubPlayed, {}, Answers, MaxSubNotes)
  \/ Fire(Answers)
  \/ Advance(MaxSubTime, 1)

SpecSubs == InitWith({MergeConfig(FastConfig)}) /\ [][NextSubs]_vars

\* Two engines: the same note-ons at the same instants, each engine's close
\* timers firing when the platform gets to them.
TwinPlayed == { <<48, 100>>, <<60, 100>> }

NextTwin ==
  \/ TwinNoteOn(TwinPlayed, Answers, MaxTwinNotes)
  \/ OwnFire(Answers)
  \/ TwinFire(Answers)
  \/ Advance(MaxTwinTime, 1)

SpecTwin == InitWith({MergeConfig(PlainConfig)}) /\ [][NextTwin]_vars

-----------------------------------------------------------------------------
(* Properties *)

\* the buffer of a hand after the step
BufAfter(hand) == IF hand = "L" THEN bufferL' ELSE bufferR'

\* a handleNoteOn call on a live engine, and the note it recorded
NoteOnStep == lastCall' = "handleNoteOn" /\ noteCount' = noteCount + 1 /\ ~disposed
Arrived == played'[Len(played')]

Pitches(notes) == [i \in DOMAIN notes |-> notes[i].midi]

\* C4: a note-on that brings a hand's buffer to its early-close count within
\* 0.6 of the hand's window closes the window in that same call: one event
\* with exactly the buffered notes and the new one is emitted, the buffer is
\* empty afterwards and no close timer of the hand remains pending.
C4_EarlyClose ==
  [][ NoteOnStep =>
        LET h == Arrived.hand
            b == Buf(h)
            cfgWindow == IF h = "L" THEN cfg.chordWindowMsLeft ELSE cfg.chordWindowMsRight
            earlyCount == IF h = "L" THEN cfg.earlyCloseCountLeft ELSE cfg.earlyCloseCountRight
        IN (/\ b.firstTime # None
            /\ Len(b.notes) + 1 >= earlyCount
            /\ 10 * (lastStamp' - b.firstTime[1]) < 6 * cfgWindow)
           => /\ Len(emitted') = 1
              /\ emitted'[1].evt.hand = h
              /\ emitted'[1].evt.notes = SortAsc(Append(Pitches(b.notes), Arrived.midi))
              /\ BufAfter(h).notes = <<>>
              /\ BufAfter(h).firstTime = None
              /\ ~\E t \in timers': t.hand = h ]_vars

\* C5: a close timer that finds at least one buffered note emits exactly one
\* event for its hand and leaves that hand's buffer empty with no window open,
\* whatever the timestamp of the window's first note (subscribers and the
\* naming collaborator behaving).
C5_CloseEmits ==
  [][ \A t \in timers, det \in Answers:
        (CloseTimer(t, det) /\ ~Raises(chordCallbacks) /\ Buf(t.hand).notes # <<>>)
        => /\ Len(emitted') = 1
           /\ emitted'[1].evt.hand = t.hand
           /\ BufAfter(t.hand).notes = <<>>
           /\ BufAfter(t.hand).firstTime = None ]_vars

\* C8: an emission reaches every subscriber registered at that moment even if
\* one of them raises, raises nothing out of the call that emitted, and leaves
\* the buffer of the event's hand reset.
C8_SubscriberIsolated ==
  \A i \in DOMAIN emitted:
    /\ emitted[i].to = chordCallbacks
    /\ ~threw
    /\ Buf(emitted[i].evt.hand).notes = <<>>
    /\ Buf(emitted[i].evt.hand).firstTime = None

\* C9: when the naming collaborator raises on a close timer whose window has
\* two or more pitch classes, the event is still emitted, with name null, and
\* the buffer is still reset.
C9_CollaboratorIsolated ==
  [][ \A t \in timers, det \in Detections:
        (/\ CloseTimer(t, det)
         /\ det.throws
         /\ ~Falsy(Buf(t.hand).firstTime)
         /\ Len(DistinctPitchClasses(NoteSet(t.hand, Buf(t.hand), activeNotes))) >= 2)
        => /\ Len(emitted') = 1
           /\ emitted'[1].evt.name = None
           /\ BufAfter(t.hand).notes = <<>>
           /\ BufAfter(t.hand).firstTime = None ]_vars

\* C10: no active-note entry, buffered note, history entry or emitted event
\* carries a pitch or a velocity outside 0..127, and no call raises.
Byte == 0..127
C10_Clamped ==
  /\ \A m \in DOMAIN activeNotes:
       m \in Byte /\ activeNotes[m].midi \in Byte /\ activeNotes[m].velocity \in Byte
  /\ \A h \in Hands: \A i \in DOMAIN Buf(h).notes:
       Buf(h).notes[i].midi \in Byte /\ Buf(h).notes[i].velocity \in Byte
  /\ \A i \in DOMAIN recentNoteOns: recentNoteOns[i] \in Byte
  /\ \A i \in DOMAIN emitted:
       /\ Range(emitted[i].evt.notes) \subseteq Byte
       /\ Range(emitted[i].evt.velocities) \subseteq Byte
  /\ ~threw

-----------------------------------------------------------------------------
(* Properties of the default configuration *)

\* exactly the keys 60, 64, 67 have been pressed, in any order, their
\* timestamps within 10 ms of each other, and the split point has not moved
TriadPlayed ==
  /\ cfg = DEFAULTS
  /\ splitCount = 0
  /\ noteCount = 3
  /\ Len(recentNoteOns) = 3
  /\ Range(recentNoteOns) = {60, 64, 67}
  /\ \A m, k \in DOMAIN activeNotes: activeNotes[m].time - activeNotes[k].time <= 10

\* C1: under the default configuration the keys 60, 64, 67 pressed within
\* 10 ms, with no further note, yield exactly one event once the close timer
\* has fired, none before; it is for hand R with role Chord and pitch classes
\* [0, 4, 7], and the left hand's buffer stays untouched.
C1_TriadOneEvent ==
  TriadPlayed =>
    /\ chordCount = (IF timers = {} THEN 1 ELSE 0)
    /\ \A i \in DOMAIN emitted:
         /\ emitted[i].evt.hand = "R"
         /\ emitted[i].evt.role = "Chord"
         /\ emitted[i].evt.pitchClasses = <<0, 4, 7>>
    /\ bufferL = EmptyBuffer

C1_Witness == TriadPlayed /\ Len(emitted) = 1 /\ lastCall = "closeTimer"

-----------------------------------------------------------------------------
(* Properties of hand assignment *)

\* C2: a note-on of pitch p is given hand L iff p is below the split point
\* of that moment; the hand is recorded in the active-note entry, the note
\* enters that hand's buffer (or the event that closes it in the same call)
\* and the other hand's buffer is left as it was.
C2_HandBySplit ==
  [][ NoteOnStep =>
        LET p == recentNoteOns'[Len(recentNoteOns')]
            h == IF p < splitPoint THEN "L" ELSE "R"
            o == IF p < splitPoint THEN "R" ELSE "L"
            n == [midi |-> p, velocity |-> activeNotes'[p].velocity, time |-> lastStamp']
        IN /\ activeNotes'[p].hand = h
           /\ BufAfter(o) = Buf(o)
           /\ \/ BufAfter(h).notes = Append(Buf(h).notes, n)
              \/ /\ BufAfter(h).notes = <<>>
                 /\ Len(emitted') = 1
                 /\ emitted'[1].evt.hand = h
                 /\ p \in Range(emitted'[1].evt.notes) ]_vars

\* a key below the initial split was given hand R after the split moved down
C2_Witness ==
  /\ lastCall = "handleNoteOn"
  /\ splitPoint < cfg.splitInitialMidi
  /\ played # <<>>
  /\ played[Len(played)].midi < cfg.splitInitialMidi
  /\ played[Len(played)].hand = "R"
  /\ activeNotes[played[Len(played)].midi].hand = "R"

\* C3: an estimator tick leaves both buffers and the hand of every active
\* note as they were, and every pitch of an emitted event was given the
\* event's hand at a note-on, wherever the split point is by then.
C3_TickKeepsHands ==
  [][ /\ RecomputeSplit =>
           /\ UNCHANGED <<bufferL, bufferR>>
           /\ DOMAIN activeNotes' = DOMAIN activeNotes
           /\ \A m \in DOMAIN activeNotes: activeNotes'[m].hand = activeNotes[m].hand
      /\ \A i \in DOMAIN emitted':
           /\ \A q \in Range(emitted'[i].evt.notes):
                \E j \in DOMAIN played':
                  played'[j].midi = q /\ played'[j].hand = emitted'[i].evt.hand
           /\ Range(Pitches(Buf(emitted'[i].evt.hand).notes))
                \subseteq Range(emitted'[i].evt.notes) ]_vars

\* an event was emitted for a hand although one of its pitches is by now on
\* the other side of the split point
C3_Witness ==
  /\ splitCount > 0
  /\ \E i \in DOMAIN emitted: \E q \in Range(emitted[i].evt.notes):
       emitted[i].evt.hand # (IF q < splitPoint THEN "L" ELSE "R")

-----------------------------------------------------------------------------
(* Properties of dispose and of the pedal *)

\* C6: once disposed, no step changes the engine's state or emits a chord or
\* split event or raises: pending timers and the estimator tick are gone and
\* the handlers do nothing, also with callbacks subscribed after dispose.
C6_DisposedSilent ==
  [][ disposed =>
        /\ UNCHANGED engine
        /\ emitted' = <<>>
        /\ splitEmitted' = <<>>
        /\ ~threw'
        /\ UNCHANGED counts ]_vars

\* disposed with a window left open past its deadline, callbacks subscribed
\* since, and a note-on received since
C6_Witness ==
  /\ disposed
  /\ chordCallbacks # <<>>
  /\ splitCallbacks # <<>>
  /\ lastCall = "handleNoteOn"
  /\ noteCount > Len(played)
  /\ \E h \in Hands:
       /\ Buf(h).notes # <<>>
       /\ Buf(h).timer # None
       /\ Buf(h).firstTime[1] + (IF h = "L" THEN cfg.chordWindowMsLeft
                                 ELSE cfg.chordWindowMsRight) <= now

\* C7: a note-off of an active pitch with the pedal down keeps the entry and
\* marks it sustained, with the pedal up it deletes the entry; a pedal release
\* deletes exactly the sustained entries; all other entries stay as they were.
C7_Sustain ==
  [][ /\ (lastCall' = "handleNoteOff" /\ ~disposed) =>
           \A m \in DOMAIN activeNotes:
             HandleNoteOff(m) =>
               /\ DOMAIN activeNotes' = (IF pedalDown THEN DOMAIN activeNotes
                                         ELSE DOMAIN activeNotes \ {m})
               /\ pedalDown => activeNotes'[m].sustained
               /\ \A k \in DOMAIN activeNotes' \ {m}: activeNotes'[k] = activeNotes[k]
      /\ (lastCall' = "handleControlChange" /\ pedalDown /\ ~disposed) =>
           \A v \in 0..63:
             HandleControlChange(64, v) =>
               /\ ~pedalDown'
               /\ DOMAIN activeNotes' =
                    { m \in DOMAIN activeNotes : ~activeNotes[m].sustained }
               /\ \A k \in DOMAIN activeNotes': activeNotes'[k] = activeNotes[k] ]_vars

\* a released key kept sounding by the pedal next to a key still held
C7_Witness ==
  /\ lastCall = "handleNoteOff"
  /\ pedalDown
  /\ \E m, k \in DOMAIN activeNotes:
       activeNotes[m].sustained /\ ~activeNotes[k].sustained

-----------------------------------------------------------------------------
(* Properties of the split estimator *)

\* the rounded midpoint of the 25th- and 75th-percentile values of a history
Midpoint(history) ==
  LET sorted == SortAsc(history)
      low == sorted[(Len(sorted) \div 4) + 1]
      high == sorted[((3 * Len(sorted)) \div 4) + 1]
  IN (low + high + 1) \div 2

Clamped(x) ==
  IF x < cfg.splitMin THEN cfg.splitMin
  ELSE IF x > cfg.splitMax THEN cfg.splitMax
  ELSE x

\* C11 as stated: a tick that follows fewer than 8 note-ons since the
\* previous tick leaves the split point as it was and emits no split event.
C11_FewSinceTick ==
  [][ (lastCall' = "recomputeSplit" /\ RecomputeSplit
       /\ sinceTick # None /\ sinceTick[1] < 8)
      => (splitPoint' = splitPoint /\ splitEmitted' = <<>>) ]_vars

\* C11, amended: a tick that finds fewer than 8 pitches in the rolling
\* history leaves the split point as it was and emits no split event.
C11_ShortHistory ==
  [][ (lastCall' = "recomputeSplit" /\ RecomputeSplit /\ Len(recentNoteOns) < 8)
      => /\ splitPoint' = splitPoint
         /\ splitEmitted' = <<>>
         /\ splitCount' = splitCount ]_vars

\* a tick has just run on a history of fewer than 8 pitches whose midpoint
\* is at least the threshold away from the split point
C11_Witness ==
  /\ lastCall = "recomputeSplit"
  /\ sinceTick = Some(0)
  /\ recentNoteOns # <<>>
  /\ Len(recentNoteOns) < 8
  /\ Abs(Midpoint(recentNoteOns) - splitPoint) >= cfg.splitShiftThreshold

\* a tick on at least 8 pitches whose midpoint is at least the threshold
\* away from the split point
FarTick ==
  /\ lastCall' = "recomputeSplit"
  /\ RecomputeSplit
  /\ Len(recentNoteOns) >= 8
  /\ Abs(Midpoint(recentNoteOns) - splitPoint) >= cfg.splitShiftThreshold

\* C12 as stated: on such a tick the split point changes, and its new value
\* is the midpoint clamped into [splitMin, splitMax].
C12_AlwaysChanges ==
  [][ FarTick => /\ splitPoint' # splitPoint
                 /\ splitPoint' = Clamped(Midpoint(recentNoteOns)) ]_vars

\* C12, amended: on such a tick the split point becomes the midpoint clamped
\* into [splitMin, splitMax]; a split event is emitted, carrying that value,
\* exactly when this differs from the split point before the tick.
C12_ClampedMidpoint ==
  [][ FarTick =>
        /\ splitPoint' = Clamped(Midpoint(recentNoteOns))
        /\ (splitPoint' # splitPoint) <=> (Len(splitEmitted') = 1)
        /\ \A i \in DOMAIN splitEmitted': splitEmitted'[i].evt.splitMidi = splitPoint'
        /\ splitCount' = splitCount + Len(splitEmitted') ]_vars

\* the split point has just moved to a bound that the midpoint lies beyond
C12_Witness ==
  /\ lastCall = "recomputeSplit"
  /\ Len(splitEmitted) = 1
  /\ Len(recentNoteOns) >= 8
  /\ splitPoint = Clamped(Midpoint(recentNoteOns))
  /\ splitPoint # Midpoint(recentNoteOns)

-----------------------------------------------------------------------------
(* Properties of classification and velocity *)

\* number of distinct pitch classes among the notes of an event
PcCount(evt) == Cardinality({ n % 12 : n \in Range(evt.notes) })

MiddleValue(values) ==
  LET sorted == SortAsc(values)
      n == Len(sorted)
  IN IF n % 2 = 1 THEN sorted[(n + 1) \div 2]
     ELSE (sorted[n \div 2] + sorted[(n \div 2) + 1] + 1) \div 2

\* the raw velocities of the window an emitting step closes
RawVelocities(hand) ==
  [i \in DOMAIN Buf(hand).notes |-> Buf(hand).notes[i].velocity]
    \o (IF NoteOnStep THEN <<activeNotes'[Arrived.midi].velocity>> ELSE <<>>)

\* C15: with blend factor 1 every emitted velocity equals the median of the
\* window's raw velocities; with blend factor 0 the emitted velocities are
\* the raw velocities, entry by entry.
C15_BlendBounds ==
  [][ \A i \in DOMAIN emitted':
        LET e == emitted'[i].evt
            raw == RawVelocities(e.hand)
            blend == IF e.hand = "R" THEN cfg.velocityBlendRight
                     ELSE cfg.velocityBlendLeft
        IN /\ Len(e.velocities) = Len(raw)
           /\ blend = 10 => \A k \in DOMAIN raw: e.velocities[k] = MiddleValue(raw)
           /\ blend = 0 => e.velocities = raw ]_vars

\* two keys struck with different velocities came out equalized
C15_Witness ==
  /\ Len(emitted) = 1
  /\ Len(emitted[1].evt.velocities) = 2
  /\ emitted[1].evt.velocities[1] = emitted[1].evt.velocities[2]
  /\ \E p, q \in Range(emitted[1].evt.notes):
       /\ (activeNotes[p].velocity + activeNotes[q].velocity) % 2 = 1
       /\ 2 * emitted[1].evt.velocities[1] =
            activeNotes[p].velocity + activeNotes[q].velocity + 1

-----------------------------------------------------------------------------
(* Frame properties of the note-off and control-change entry points *)

\* no emitChord and no emitSplitChange call in the step
NoEmission ==
  /\ emitted' = <<>>
  /\ splitEmitted' = <<>>
  /\ UNCHANGED counts

\* the keys the runs release, with or without an active entry
ReleasedKeys == { p[1] : p \in HeldPlayed }

\* C18: handleNoteOff leaves both buffers (notes, window start, pending
\* timer), the split point, the pitch history and the pedal flag unchanged and
\* emits nothing; for a pitch without an active entry it changes nothing at all
C18_NoteOffFrame ==
  [][lastCall' = "handleNoteOff" =>
       \A m \in ReleasedKeys:
         HandleNoteOff(m) =>
           /\ UNCHANGED <<bufferL, bufferR, timers, splitPoint, recentNoteOns, pedalDown>>
           /\ NoEmission
           /\ m \notin DOMAIN activeNotes => UNCHANGED <<engine, subs>>]_vars

\* a key was released while its window was still open
C18_Witness ==
  /\ lastCall = "handleNoteOff"
  /\ timers # {}
  /\ \E hand \in Hands:
       \E i \in DOMAIN Buf(hand).notes: Buf(hand).notes[i].midi \notin DOMAIN activeNotes

\* the controllers and values the property is checked for
Controllers == {0, 1, 63, 64, 65, 127}
PedalValues == {0, 63, 64, 127}

\* C19: a control change of a controller other than 64, or a CC64 that repeats
\* the pedal state, changes nothing; no control change alters a buffer, the
\* split point or the pitch history, or emits
C19_ControlChangeFrame ==
  [][lastCall' = "handleControlChange" =>
       \A c \in Controllers, v \in PedalValues:
         HandleControlChange(c, v) =>
           /\ UNCHANGED <<bufferL, bufferR, timers, splitPoint, recentNoteOns>>
           /\ NoEmission
           /\ (c # 64 \/ (v >= 64 /\ pedalDown) \/ (v < 64 /\ ~pedalDown)) =>
                 UNCHANGED <<engine, subs>>]_vars

\* the pedal went down while a window was open and a key was held
C19_Witness ==
  /\ lastCall = "handleControlChange"
  /\ pedalDown
  /\ timers # {}
  /\ DOMAIN activeNotes # {}

-----------------------------------------------------------------------------
(* Properties of the subscriptions *)

\* C20: every event emitted in a step is delivered in that step to every
\* callback subscribed at that moment, once each, in subscription order, and
\* to no other callback
C20_DeliveredInOrder ==
  [][\A i \in DOMAIN emitted':
       /\ emitted'[i].to = chordCallbacks
       /\ Cardinality(Range(emitted'[i].to)) = Len(emitted'[i].to)]_vars

\* C17: calling an unsubscribe closure that has been called before changes
\* nothing in the engine, whatever happened in between
C17_UnsubscribeIdempotent ==
  [][\A f \in unsub.spent: Unsubscribe(f) => UNCHANGED <<engine, subs>>]_vars

-----------------------------------------------------------------------------
(* Determinism *)

\* C16: once both engines have closed every window, they have emitted the same
\* events (count, hand, role, pitches), whenever their close timers ran
C16_SameEvents ==
  (timers = {} /\ twin.timers = {}) => twin.seen = twin.own

-----------------------------------------------------------------------------
(* Timer discipline *)

\* the pending close timers of a hand
Pending(hand) == { t \in timers : t.hand = hand }

\* the buffer of the hand is open: window start recorded and a note buffered
Open(hand) == Buf(hand).firstTime # None /\ Len(Buf(hand).notes) >= 1

\* C21: while the engine is not disposed, each hand has at most one pending
\* close timer, it has one exactly when its buffer is open, the pending timer
\* is the one the buffer refers to (none is left over from an earlier
\* window), and the split-estimation interval is running
C21_TimerDiscipline ==
  ~disposed =>
    /\ \A hand \in Hands:
         /\ Cardinality(Pending(hand)) <= 1
         /\ Pending(hand) # {} <=> Open(hand)
         /\ \A t \in Pending(hand): Buf(hand).timer = Some(t.n)
    /\ adaptTimer.active

-----------------------------------------------------------------------------
(* Properties of the emitted event *)

\* the role the priority order gives to k distinct pitch classes
RoleByCount(k, evt) ==
  IF k >= cfg.maxClusterSize THEN evt.role = "Cluster"
  ELSE IF k >= 3 THEN evt.role = "Chord"
  ELSE IF k = 2 THEN evt.role = "Dyad"
  ELSE evt.role \in {"BassLine", "Arpeggio"}

-----------------------------------------------------------------------------
(* Properties of the window *)

WindowOf(hand) == IF hand = "L" THEN cfg.chordWindowMsLeft ELSE cfg.chordWindowMsRight
EarlyCountOf(hand) == IF hand = "L" THEN cfg.earlyCloseCountLeft ELSE cfg.earlyCloseCountRight
RollOf(hand) == IF hand = "L" THEN cfg.rollExtensionMsLeft ELSE cfg.rollExtensionMsRight

\* the note of this step joins an open buffer of its hand
Joins(hand) == NoteOnStep /\ Arrived.hand = hand /\ Buf(hand).firstTime # None

\* elapsed time of the arriving note since the window start
ElapsedOf(hand) == lastStamp' - Buf(hand).firstTime[1]

\* the early-close condition for the arriving note
EarlyOf(hand) ==
  /\ Len(Buf(hand).notes) + 1 >= EarlyCountOf(hand)
  /\ 10 * ElapsedOf(hand) < 6 * WindowOf(hand)

\* C23: a note appended to an open buffer without early close, chordWindowMs <
\* e <= rollExtensionMs: the pending timer is cancelled and one new timer is
\* due max(10, rollExtensionMs - e) ms ahead, so that the hand is left with
\* exactly that timer; otherwise the pending timer is left untouched
C23_RollExtension ==
  [][\A hand \in Hands:
       (Joins(hand) /\ ~EarlyOf(hand)) =>
         LET e == ElapsedOf(hand)
             after == { t \in timers' : t.hand = hand }
         IN IF e > WindowOf(hand) /\ e <= RollOf(hand)
            THEN /\ Cardinality(after) = 1
                 /\ \A t \in after:
                      /\ t.due = now + Max(10, RollOf(hand) - e)
                      /\ BufAfter(hand).timer = Some(t.n)
            ELSE /\ after = Pending(hand)
                 /\ BufAfter(hand).timer = Buf(hand).timer]_vars

\* a rolled note left more than 10 ms of the budget: the timer is due after it
C23_Witness ==
  /\ lastCall = "handleNoteOn"
  /\ Len(bufferR.notes) >= 2
  /\ \E t \in Pending("R"): t.due = now + 11

\* C24: handleNoteOn closes a buffer within the call only under the
\* early-close condition (not the first note of the window, count reached,
\* elapsed below 60% of the window); in every other case the call emits
\* nothing and leaves the window open with the note in it, and its close
\* timer (set by the call if the note is the first) is pending afterwards
C24_OnlyEarlyClose ==
  [][\A hand \in Hands:
       (NoteOnStep /\ Arrived.hand = hand) =>
         LET early == Buf(hand).firstTime # None /\ EarlyOf(hand)
         IN /\ (emitted' # <<>> \/ BufAfter(hand).notes = <<>>) => early
            /\ ~early =>
                 /\ emitted' = <<>>
                 /\ UNCHANGED chordCount
                 /\ BufAfter(hand).firstTime # None
                 /\ Pitches(BufAfter(hand).notes) = Append(Pitches(Buf(hand).notes), Arrived.midi)
                 /\ (Buf(hand).firstTime = None \/ Pending(hand) # {}) =>
                      \E t \in timers': t.hand = hand]_vars

\* the count was reached at exactly 60% of the window: no close
C24_Witness ==
  /\ lastCall = "handleNoteOn"
  /\ cfg.chordWindowMsLeft = 5
  /\ Len(bufferL.notes) >= 2
  /\ bufferL.firstTime # None
  /\ lastStamp - bufferL.firstTime[1] = 3
  /\ played[Len(played)].hand = "L"
  /\ emitted = <<>>

-----------------------------------------------------------------------------
(* Properties of an estimator tick *)

\* the last n entries of a sequence
LastOf(seq, n) == IF Len(seq) > n THEN SubSeq(seq, Len(seq) - n + 1, Len(seq)) ELSE seq

\* C25: a tick changes the split point exactly when the history holds at least
\* 8 pitches, the candidate is at least splitShiftThreshold away from the split
\* and its clamped value differs from the split; the split then becomes the
\* clamped value and one event carrying it reaches each split subscriber;
\* otherwise the split is unchanged and no event is emitted
C25_TickChanges ==
  [][lastCall' = "recomputeSplit" =>
       (RecomputeSplit =>
          LET c == Midpoint(recentNoteOns)
              changes == /\ Len(recentNoteOns) >= 8
                         /\ Abs(c - splitPoint) >= cfg.splitShiftThreshold
                         /\ Clamped(c) # splitPoint
          IN IF changes
             THEN /\ splitPoint' = Clamped(c)
                  /\ Len(splitEmitted') = 1
                  /\ splitEmitted'[1].evt.splitMidi = Clamped(c)
                  /\ splitEmitted'[1].to = splitCallbacks
             ELSE /\ UNCHANGED splitPoint
                  /\ splitEmitted' = <<>>)]_vars

\* C26: after every tick the history holds at most 128 entries, the most
\* recent note-on pitches in arrival order, and a tick drops nothing from a
\* history of 128 entries or fewer
C26_HistoryTrimmed ==
  [][lastCall' = "recomputeSplit" =>
       (RecomputeSplit =>
          /\ Len(recentNoteOns') <= 128
          /\ recentNoteOns' = LastOf(Pitches(played), Len(recentNoteOns'))
          /\ Len(recentNoteOns) <= 128 => UNCHANGED recentNoteOns)]_vars

-----------------------------------------------------------------------------
(* Properties of the fields of an emitted event *)

\* the pitches buffered in the window that the step closes, in arrival order
Buffered(hand) ==
  IF lastCall' = "handleNoteOn"
  THEN Append(Pitches(Buf(hand).notes), Arrived.midi)
  ELSE Pitches(Buf(hand).notes)

\* the notes that sound at the close without being in the window: active,
\* sustained, recorded for the hand
Sounding(hand) ==
  { m \in DOMAIN activeNotes' :
      /\ activeNotes'[m].sustained
      /\ activeNotes'[m].hand = hand
      /\ m \notin Range(Buffered(hand)) }

\* C27: with sustainIncludesBuffer the notes of an event are the buffered
\* pitches plus the sustained active notes of the event's hand that are not
\* among them, and nothing else; without it, the buffered pitches only
C27_SustainedContext ==
  [][emitted' # <<>> =>
       \A i \in DOMAIN emitted':
         LET evt == emitted'[i].evt
             added == IF cfg.sustainIncludesBuffer THEN Sounding(evt.hand) ELSE {}
         IN /\ Range(evt.notes) = Range(Buffered(evt.hand)) \cup added
            /\ Len(evt.notes) = Len(Buffered(evt.hand)) + Cardinality(added)]_vars

\* a window holding 64 alone closed while 60 was sustained in the same hand
C27_Witness ==
  /\ cfg.sustainIncludesBuffer
  /\ \E i \in DOMAIN emitted:
       /\ emitted[i].evt.notes = <<60, 64>>
       /\ Len(emitted[i].evt.velocities) = 1

\* pitchClasses lists the pitch classes of notes once each, ascending
PitchClassesExact(evt) ==
  /\ \A j, k \in DOMAIN evt.pitchClasses: j < k => evt.pitchClasses[j] < evt.pitchClasses[k]
  /\ Range(evt.pitchClasses) = { n % 12 : n \in Range(evt.notes) }

\* C28 as stated: notes is ascending without a repeated pitch, and
\* pitchClasses is the set of its pitch classes, once each, ascending
C28_NoRepeatedPitch ==
  \A i \in DOMAIN emitted:
    LET evt == emitted[i].evt
    IN /\ \A j, k \in DOMAIN evt.notes: j < k => evt.notes[j] < evt.notes[k]
       /\ PitchClassesExact(evt)

\* how often a pitch is listed
Count(seq, pitch) == Cardinality({ j \in DOMAIN seq : seq[j] = pitch })

\* C28 amended: notes is in non-decreasing pitch order, a pitch struck more
\* than once in the window is listed once per strike and any other pitch at
\* most once, and pitchClasses is the set of its pitch classes, once each,
\* ascending
C28_SortedNotes ==
  [][\A i \in DOMAIN emitted':
       LET evt == emitted'[i].evt
           struck == Buffered(evt.hand)
       IN /\ \A j, k \in DOMAIN evt.notes: j < k => evt.notes[j] <= evt.notes[k]
          /\ \A n \in Range(evt.notes):
               Count(evt.notes, n) = IF n \in Range(struck) THEN Count(struck, n) ELSE 1
          /\ PitchClassesExact(evt)]_vars

\* an event whose notes list the same pitch twice
C28_Witness ==
  \E i \in DOMAIN emitted:
    LET evt == emitted[i].evt
    IN /\ Len(evt.notes) = 2
       /\ evt.notes[1] = evt.notes[2]
       /\ Len(evt.pitchClasses) = 1

\* C29: velocities has one entry per note-on buffered in the window, in
\* arrival order: entry k is the k-th arrival's velocity blended with the
\* median of the buffered velocities; notes added as sustained context have
\* no entry and no part in the median
C29_ArrivalOrder ==
  [][emitted' # <<>> =>
       \A i \in DOMAIN emitted':
         LET evt == emitted'[i].evt
             raw == RawVelocities(evt.hand)
             blend == IF evt.hand = "R" THEN cfg.velocityBlendRight
                      ELSE cfg.velocityBlendLeft
         IN /\ Len(evt.velocities) = Len(raw)
            /\ \A k \in DOMAIN raw:
                 evt.velocities[k] = BlendVelocity(raw[k], MiddleValue(raw), blend)]_vars

\* 64 arrived softly before a louder 60: the first velocity entry belongs to
\* the higher pitch
C29_Witness ==
  \E i \in DOMAIN emitted:
    LET evt == emitted[i].evt
    IN /\ evt.notes = <<60, 64>>
       /\ Len(evt.velocities) = 2
       /\ evt.velocities[1] < evt.velocities[2]
       /\ activeNotes[64].velocity < activeNotes[60].velocity

-----------------------------------------------------------------------------
(* Properties of the naming fields *)

NamedRoles == {"Chord", "Dyad", "Cluster"}

\* a step in which the collaborator, if it is called, does det
StepWith(det) ==
  \/ \E t \in timers: CloseTimer(t, det)
  \/ \E p \in NamingPlayed: HandleNoteOn(p[1], p[2], lastStamp', det)

\* the naming fields of evt, given what the collaborator does
NamingFields(evt, det) ==
  /\ IF evt.role \in NamedRoles /\ det.names # <<>>
     THEN /\ evt.name # None
          /\ evt.name[1] \in Range(det.names)
          /\ \A k \in DOMAIN det.names: Len(evt.name[1]) <= Len(det.names[k])
     ELSE evt.name = None
  /\ IF evt.name # None
     THEN /\ evt.root # None
          /\ \A n \in Range(evt.notes): evt.root[1] <= n
          /\ evt.root[1] \in Range(evt.notes)
          /\ evt.inversion # None
          /\ evt.pitchClasses[evt.inversion[1] + 1] = evt.root[1] % 12
     ELSE evt.root = None /\ evt.inversion = None

\* C30: name is non-null only for the roles Chord, Dyad and Cluster when the
\* collaborator returned a candidate, and is then a candidate of minimal
\* length; root and inversion are set exactly when name is non-null, root
\* being the lowest pitch of notes and inversion the 0-based index of
\* root mod 12 in pitchClasses; BassLine and Arpeggio events carry none
C30_NamingFields ==
  [][emitted' # <<>> =>
       \A det \in Detections:
         StepWith(det) => \A i \in DOMAIN emitted': NamingFields(emitted'[i].evt, det)]_vars

\* a named dyad whose lowest pitch, 47, has the higher of the two pitch classes
C30_Witness ==
  \E i \in DOMAIN emitted:
    LET evt == emitted[i].evt
    IN /\ evt.role = "Dyad"
       /\ evt.name = Some("CM")
       /\ evt.root = Some(47)
       /\ evt.inversion = Some(1)

-----------------------------------------------------------------------------
(* Properties of the active set *)

\* the entry handleNoteOn(midi, velocity, time) leaves for its pitch
FreshEntry(midi, velocity, time) ==
  [midi |-> midi, velocity |-> velocity, time |-> time,
   sustained |-> FALSE, hand |-> HandOf(midi, splitPoint)]

\* C31: every entry of the active set is the one entry of its pitch; a
\* note-on leaves for its pitch a fresh entry (new velocity and time, hand by
\* the current split, not sustained) whether or not the pitch was active, and
\* touches no other entry; a pedal release keeps every entry that is not
\* sustained, so a sustained pitch struck again outlives the release
C31_Restrike ==
  [][/\ \A m \in DOMAIN activeNotes': activeNotes'[m].midi = m
     /\ (lastCall' = "handleNoteOn" /\ ~disposed) =>
          \A p \in RestrikePlayed \cup {RestrikeSoft}, det \in Unnamed:
            HandleNoteOn(p[1], p[2], lastStamp', det) =>
              /\ DOMAIN activeNotes' = DOMAIN activeNotes \cup {p[1]}
              /\ activeNotes'[p[1]] = FreshEntry(p[1], p[2], lastStamp')
              /\ \A k \in DOMAIN activeNotes \ {p[1]}: activeNotes'[k] = activeNotes[k]
     /\ (lastCall' = "handleControlChange" /\ pedalDown /\ ~pedalDown') =>
          \A m \in DOMAIN activeNotes:
            ~activeNotes[m].sustained =>
              m \in DOMAIN activeNotes' /\ activeNotes'[m] = activeNotes[m]]_vars

\* 60 was sustained, struck again softly, and is still active after the
\* pedal came up
C31_Witness ==
  /\ lastCall = "handleControlChange"
  /\ ~pedalDown
  /\ RestrikeSoft[1] \in DOMAIN activeNotes
  /\ activeNotes[RestrikeSoft[1]].velocity = RestrikeSoft[2]
  /\ ~activeNotes[RestrikeSoft[1]].sustained

-----------------------------------------------------------------------------
(* Progress of the windows *)

\* C32: without dispose and without a throwing subscriber, when the clock
\* reaches every deadline and due timers fire, a window that is open is
\* eventually closed and its buffer empty again
C32_WindowsClose ==
  \A hand \in Hands:
    (Buf(hand).firstTime # None) ~>
      (Buf(hand).firstTime = None /\ Buf(hand).notes = <<>>)

-----------------------------------------------------------------------------
(* Conservation of the notes *)

\* the pitches a hand's window holds once the step's note-on, if any, has
\* been pushed to it, in arrival order
Held(hand) ==
  IF NoteOnStep /\ Arrived.hand = hand
  THEN Append(Pitches(Buf(hand).notes), Arrived.midi)
  ELSE Pitches(Buf(hand).notes)

\* the events of a hand emitted in the step
Closed(hand) == SelectSeq(emitted', LAMBDA e: e.evt.hand = hand)

\* C33, step by step: an accepted note-on enters the buffer of the hand it
\* was given; a buffer loses notes only by a step that emits exactly one
\* event of that hand, holding each of them with one velocity entry, and
\* such a step leaves the buffer empty.  So once both buffers are empty each
\* accepted note-on is in exactly one event, of its hand.
C33_Conservation ==
  [][\A hand \in Hands:
       IF Closed(hand) = <<>>
       THEN Pitches(Buf(hand).notes)' = Held(hand)
       ELSE /\ Len(Closed(hand)) = 1
            /\ Buf(hand).notes' = <<>>
            /\ Len(Closed(hand)[1].evt.velocities) = Len(Held(hand))
            /\ \A n \in Range(Held(hand)):
                 Count(Closed(hand)[1].evt.notes, n) >= Count(Held(hand), n)]_vars

-----------------------------------------------------------------------------
(* The pedal flag and the sustained entries *)

\* C34: while the pedal flag is up no entry of the active set is sustained
C34_SustainedOnlyWithPedal ==
  ~pedalDown => \A m \in DOMAIN activeNotes: ~activeNotes[m].sustained

\* the pedal has just come up: a key that was played is gone from the active
\* set while another one is still held
C34_Witness ==
  /\ lastCall = "handleControlChange"
  /\ ~pedalDown
  /\ DOMAIN activeNotes # {}
  /\ \E i \in DOMAIN played: played[i].midi \notin DOMAIN activeNotes

-----------------------------------------------------------------------------
(* Range of the split point *)

InSplitRange(x) == cfg.splitMin <= x /\ x <= cfg.splitMax

\* the configuration has a range and starts inside it
SplitConfigured == cfg.splitMin <= cfg.splitMax /\ InSplitRange(cfg.splitInitialMidi)

\* C35: for a configuration whose range is not empty and holds the initial
\* split, the split point lies in [splitMin, splitMax] in every state, and
\* each SplitChangeEvent carries the new split point, which lies in the range
\* and differs from the split point held before the step
C35_SplitInRange ==
  /\ SplitConfigured => InSplitRange(splitPoint)
  /\ [][SplitConfigured =>
          /\ InSplitRange(splitPoint')
          /\ \A i \in DOMAIN splitEmitted':
               /\ splitEmitted'[i].evt.splitMidi = splitPoint'
               /\ InSplitRange(splitEmitted'[i].evt.splitMidi)
               /\ splitEmitted'[i].evt.splitMidi # splitPoint]_vars

\* a history centred on 40 has just moved the split point down to splitMin
C35_Witness ==
  /\ SplitConfigured
  /\ splitEmitted # <<>>
  /\ splitEmitted[1].evt.splitMidi = cfg.splitMin
  /\ Candidate(recentNoteOns) < cfg.splitMin

-----------------------------------------------------------------------------
(* Punctual timers *)

\* the arriving note takes the roll-extension branch of pushToBuffer
RollBranch(hand) ==
  /\ Joins(hand)
  /\ ~EarlyOf(hand)
  /\ ElapsedOf(hand) > WindowOf(hand)
  /\ ElapsedOf(hand) <= RollOf(hand)

\* C36: with note timestamps equal to the clock and close timers firing at
\* their deadlines, no window is open later than chordWindowMs after its
\* first note, a note-on never finds an open window older than that, and the
\* roll-extension branch is never taken
C36_NoRollWhenPunctual ==
  /\ [](\A hand \in Hands:
         Buf(hand).firstTime # None => now - Buf(hand).firstTime[1] <= WindowOf(hand))
  /\ [][\A hand \in Hands:
          /\ Joins(hand) => ElapsedOf(hand) <= WindowOf(hand)
          /\ ~RollBranch(hand)]_vars

-----------------------------------------------------------------------------
(* Range of the normalized velocities *)

\* C37: each velocity of an emitted event lies between the raw velocity of
\* its note and the median of the window's raw velocities, both included; so
\* raw velocities within 0..127 give velocities within 0..127
C37_BetweenRawAndMedian ==
  [][emitted' # <<>> =>
       \A i \in DOMAIN emitted':
         LET evt == emitted'[i].evt
             raw == RawVelocities(evt.hand)
             med == MiddleValue(raw)
         IN /\ Len(evt.velocities) = Len(raw)
            /\ \A k \in DOMAIN raw:
                 /\ Min(raw[k], med) <= evt.velocities[k]
                 /\ evt.velocities[k] <= Max(raw[k], med)
            /\ (\A k \in DOMAIN raw: raw[k] \in 0..127) =>
                 \A k \in DOMAIN raw: evt.velocities[k] \in 0..127]_vars

\* keys struck at 0 and at 127 came out strictly between the extremes
C37_Witness ==
  \E i \in DOMAIN emitted:
    LET evt == emitted[i].evt
    IN /\ evt.notes = <<60, 64>>
       /\ activeNotes[60].velocity = 0
       /\ activeNotes[64].velocity = 127
       /\ \A k \in DOMAIN evt.velocities: 0 < evt.velocities[k] /\ evt.velocities[k] < 127
       /\ evt.velocities[1] # evt.velocities[2]

-----------------------------------------------------------------------------
(* Independence of the hands *)

OtherHand(hand) == IF hand = "L" THEN "R" ELSE "L"

\* the step is a note-on routed to the hand, or the firing of one of the
\* hand's close timers
ActsOn(hand) ==
  \/ NoteOnStep /\ Arrived.hand = hand
  \/ /\ lastCall' = "closeTimer"
     /\ \E t \in Pending(hand), det \in Answers: CloseTimer(t, det)

\* C38: a note-on routed to one hand and the close of one hand's window, by
\* its timer or by early close, leave the other hand's buffer (notes, window
\* start, timer handle) and its pending close timer as they were
C38_HandIndependence ==
  [][\A hand \in Hands:
       ActsOn(hand) =>
         /\ Buf(OtherHand(hand))' = Buf(OtherHand(hand))
         /\ Pending(OtherHand(hand))' = Pending(OtherHand(hand))]_vars

\* the right hand's window has just been closed by its timer while the left
\* hand's window is open and waits for its own timer
C38_Witness ==
  /\ lastCall = "closeTimer"
  /\ \E i \in DOMAIN emitted: emitted[i].evt.hand = "R"
  /\ Open("L")
  /\ Pending("L") # {}
  /\ bufferR = EmptyBuffer

====
